---- MODULE Spec2Model ----
(***************************************************************************)
(* Word-search book generator (sopa_libros): the word placement engine     *)
(* place_words_on_grid of wordsearch/grid_generation.py and the            *)
(* orchestrators that call it.                                             *)
(*                                                                         *)
(* A word is a sequence of one-character strings.  A grid is a function    *)
(* from <<row, col>> (0-based, as in the code) to a one-character string,  *)
(* "" being the empty marker.  A candidate is <<r, c, dr, dc>>.            *)
(***************************************************************************)
EXTENDS Integers, Sequences, FiniteSets, TLC

(***************************************************************************)
(* Bounds of the model.                                                    *)
(***************************************************************************)
\* Grid sizes passed to the engine are 1..MaxSize.
MaxSize == 3
\* random.choice picks the filler of each empty cell; the model follows
\* MaxFill of the possible filler sequences (see FillLetter).
MaxFill == 2

(***************************************************************************)
(* Characters.                                                             *)
(***************************************************************************)
\* grid_generation.py:67, the filler alphabet.
Alphabet ==
  << "A", "B", "C", "D", "E", "F", "G", "H", "I", "J", "K", "L", "M",
     "N", "O", "P", "Q", "R", "S", "T", "U", "V", "W", "X", "Y", "Z" >>

LowerAlphabet ==
  << "a", "b", "c", "d", "e", "f", "g", "h", "i", "j", "k", "l", "m",
     "n", "o", "p", "q", "r", "s", "t", "u", "v", "w", "x", "y", "z" >>

Letters == {Alphabet[i] : i \in 1..26}

\* str.upper() on one character.  Python uses the full Unicode case mapping:
\* a cased letter maps to its capital, "ß" maps to the two characters "SS",
\* and a character without case (a space, a digit, a capital) is kept.
UpperChar(ch) ==
  IF \E i \in 1..26 : LowerAlphabet[i] = ch
    THEN << Alphabet[CHOOSE i \in 1..26 : LowerAlphabet[i] = ch] >>
    ELSE IF ch = "ß" THEN << "S", "S" >>
    ELSE << ch >>

RECURSIVE UpperFrom(_, _)
UpperFrom(w, i) ==
  IF i > Len(w) THEN << >> ELSE UpperChar(w[i]) \o UpperFrom(w, i + 1)

\* w.upper(), grid_generation.py:21.
Upper(w) == UpperFrom(w, 1)

(***************************************************************************)
(* Difficulty profiles, difficulty_levels.py.                              *)
(***************************************************************************)
DifficultyLevel == {"easy", "medium", "hard"}

difficulty_settings(d) ==
  CASE d = "easy" ->
         [grid_min |-> 8, grid_max |-> 12, grid_default |-> 10,
          directions |-> << <<0, 1>>, <<1, 0>> >>,
          allow_reversed |-> FALSE]
    [] d = "medium" ->
         [grid_min |-> 12, grid_max |-> 15, grid_default |-> 14,
          directions |-> << <<0, 1>>, <<1, 0>>, <<1, 1>>, <<1, -1>> >>,
          allow_reversed |-> FALSE]
    [] d = "hard" ->
         [grid_min |-> 15, grid_max |-> 20, grid_default |-> 18,
          directions |-> << <<0, 1>>, <<0, -1>>, <<1, 0>>, <<-1, 0>>,
                            <<1, 1>>, <<1, -1>>, <<-1, 1>>, <<-1, -1>> >>,
          allow_reversed |-> TRUE]

\* The value None of the grid_size parameter.
NoSize == 0

\* grid_generation.py:11.
SizeOf(d, grid_size) ==
  IF grid_size # NoSize THEN grid_size
  ELSE difficulty_settings(d).grid_default

\* DirectionsOf with the eight directions whatever the difficulty.
DirectionsOfAll(d) == difficulty_settings("hard").directions

\* DirectionsOf with every direction of the difficulty turned round.
DirectionsOfNegated(d) ==
  [n \in 1..Len(difficulty_settings(d).directions) |->
     << 0 - difficulty_settings(d).directions[n][1],
        0 - difficulty_settings(d).directions[n][2] >>]

\* grid_generation.py:12.
DirectionsOf(d) == difficulty_settings(d).directions

(***************************************************************************)
(* The pieces of place_words_on_grid.                                      *)
(***************************************************************************)
Cells(size) == (0..(size - 1)) \X (0..(size - 1))

\* grid_generation.py:15.
EmptyGrid(size) == [p \in Cells(size) |-> ""]

\* sorted(words, key=lambda w: -len(w)): a stable sort by descending length
\* of the words as given (before upper()).
RECURSIVE InsertByLen(_, _)
InsertByLen(s, w) ==
  IF s = << >> THEN << w >>
  ELSE IF Len(Head(s)) >= Len(w) THEN << Head(s) >> \o InsertByLen(Tail(s), w)
  ELSE << w >> \o s

RECURSIVE SortFrom(_, _, _)
SortFrom(ws, i, acc) ==
  IF i > Len(ws) THEN acc ELSE SortFrom(ws, i + 1, InsertByLen(acc, ws[i]))

\* The words of ws from position i on whose uppercase form no earlier word
\* of ws has.
RECURSIVE FirstForms(_, _)
FirstForms(ws, i) ==
  IF i > Len(ws) THEN << >>
  ELSE (IF \E j \in 1..(i - 1) : Upper(ws[j]) = Upper(ws[i])
          THEN << >> ELSE << ws[i] >>) \o FirstForms(ws, i + 1)

\* SortedWords with the words of equal uppercase form merged into one.
SortedWordsDedup(ws) == SortFrom(FirstForms(ws, 1), 1, << >>)

\* SortedWords without the sort: the words in the order given.
SortedWordsAsGiven(ws) == ws

\* grid_generation.py:17.
SortedWords(ws) == SortFrom(ws, 1, << >>)

\* grid_generation.py:22-26: the i-th candidate (from 1) the loops append:
\* every start cell, row by row, with every direction of the difficulty.
CandidateAt(size, dirs, i) ==
  LET d   == dirs[((i - 1) % Len(dirs)) + 1]
      pos == (i - 1) \div Len(dirs)
  IN << pos \div size, pos % size, d[1], d[2] >>

NumCandidates(size, dirs) == size * size * Len(dirs)

Candidates(size, dirs) ==
  [i \in 1..NumCandidates(size, dirs) |-> CandidateAt(size, dirs, i)]

\* One outcome of random.shuffle(candidates): the list read from position
\* k + 1 around; ShuffledAt is its i-th element.  The scan commits the first
\* fitting candidate of the shuffled list, and every candidate is first in
\* one of these orders, so they produce every result a permutation can
\* produce.
ShuffledAt(size, dirs, k, i) ==
  CandidateAt(size, dirs, ((i - 1 + k) % NumCandidates(size, dirs)) + 1)

\* A Python list index: a negative index counts from the end.
PyIndex(i, size) == IF i < 0 THEN i + size ELSE i

InRange(rr, cc, size) ==
  /\ 0 <= PyIndex(rr, size) /\ PyIndex(rr, size) < size
  /\ 0 <= PyIndex(cc, size) /\ PyIndex(cc, size) < size

\* grid[rr][cc] as Python reads it (IndexError outside the list).
CellAt(g, rr, cc, size) ==
  IF InRange(rr, cc, size) THEN g[<< PyIndex(rr, size), PyIndex(cc, size) >>]
  ELSE "IndexError"

\* The i-th cell (1-based) of candidate cand: rr, cc after i - 1 steps.
Target(cand, i) == << cand[1] + (i - 1) * cand[3], cand[2] + (i - 1) * cand[4] >>

\* CharFits without the test 0 <= rr, 0 <= cc: a negative index reads the
\* list from its end.
CharFitsNoLower(g, w, cand, size, i) ==
  LET rr == Target(cand, i)[1]
      cc == Target(cand, i)[2]
  IN /\ rr < size /\ cc < size
     /\ CellAt(g, rr, cc, size) \in {"", w[i]}

\* CharFits without the test of the cell's content.
CharFitsAnyLetter(g, w, cand, size, i) ==
  LET rr == Target(cand, i)[1]
      cc == Target(cand, i)[2]
  IN 0 <= rr /\ rr < size /\ 0 <= cc /\ cc < size

\* CharFits with a cell test that takes empty cells only (grid[rr][cc] != '').
CharFitsEmptyOnly(g, w, cand, size, i) ==
  LET rr == Target(cand, i)[1]
      cc == Target(cand, i)[2]
  IN /\ 0 <= rr /\ rr < size /\ 0 <= cc /\ cc < size
     /\ CellAt(g, rr, cc, size) = ""

\* grid_generation.py:36-41, the test of one character of the word.
CharFits(g, w, cand, size, i) ==
  LET rr == Target(cand, i)[1]
      cc == Target(cand, i)[2]
  IN /\ 0 <= rr /\ rr < size /\ 0 <= cc /\ cc < size
     /\ CellAt(g, rr, cc, size) \in {"", w[i]}

\* Fits with a loop that stops at the edge of the grid without clearing
\* fits.
FitsUpToEdge(g, w, cand, size) ==
  \A i \in 1..Len(w) :
    Target(cand, i) \in Cells(size) => CharFits(g, w, cand, size, i)

\* grid_generation.py:32-43: fits stays True through the whole word.
Fits(g, w, cand, size) == \A i \in 1..Len(w) : CharFits(g, w, cand, size, i)

\* Whether the i-th candidate of the list shuffled with outcome k fits.
FitsAt(g, w, size, dirs, k, i) == Fits(g, w, ShuffledAt(size, dirs, k, i), size)

\* FirstFit with a scan that keeps the last candidate that fits.
LastFit(g, w, size, dirs, k) ==
  IF \E i \in 1..NumCandidates(size, dirs) : FitsAt(g, w, size, dirs, k, i)
    THEN CHOOSE i \in 1..NumCandidates(size, dirs) :
           /\ FitsAt(g, w, size, dirs, k, i)
           /\ \A j \in (i + 1)..NumCandidates(size, dirs) :
                ~FitsAt(g, w, size, dirs, k, j)
    ELSE 0

\* FirstFit with a scan that gives up after the first candidate of the
\* shuffled list.
HeadFit(g, w, size, dirs, k) ==
  IF FitsAt(g, w, size, dirs, k, 1) THEN 1 ELSE 0

\* grid_generation.py:31-46 over the list shuffled with outcome k: the
\* position of the first candidate that fits, the one the loop stops at, or
\* 0 when the loop ends without one.
FirstFit(g, w, size, dirs, k) ==
  IF \E i \in 1..NumCandidates(size, dirs) : FitsAt(g, w, size, dirs, k, i)
    THEN CHOOSE i \in 1..NumCandidates(size, dirs) :
           /\ FitsAt(g, w, size, dirs, k, i)
           /\ \A j \in 1..(i - 1) : ~FitsAt(g, w, size, dirs, k, j)
    ELSE 0

\* Whether grid[rr][cc] = ch raises IndexError somewhere in the commit loop.
WriteRaises(w, cand, size) ==
  \E i \in 1..Len(w) : ~InRange(Target(cand, i)[1], Target(cand, i)[2], size)

\* WriteWord laying the word on a grid cleared of the earlier words.
WriteWordOnClean(g, w, cand, size) ==
  [p \in DOMAIN g |->
     IF \E i \in 1..Len(w) : Target(cand, i) = p
       THEN w[CHOOSE i \in 1..Len(w) : Target(cand, i) = p]
       ELSE ""]

\* WriteWord with a commit loop that stops before the last letter.
WriteWordNoLast(g, w, cand, size) ==
  [p \in DOMAIN g |->
     IF \E i \in 1..(Len(w) - 1) : Target(cand, i) = p
       THEN w[CHOOSE i \in 1..(Len(w) - 1) : Target(cand, i) = p]
       ELSE g[p]]

\* grid_generation.py:48-52: the letters written in order, a later write to
\* the same cell replacing an earlier one.
WriteWord(g, w, cand, size) ==
  [p \in DOMAIN g |->
     LET at == {i \in 1..Len(w) :
                  /\ InRange(Target(cand, i)[1], Target(cand, i)[2], size)
                  /\ << PyIndex(Target(cand, i)[1], size),
                        PyIndex(Target(cand, i)[2], size) >> = p}
     IN IF at = {} THEN g[p]
        ELSE w[CHOOSE i \in at : \A j \in at : j <= i]]

\* grid_generation.py:54.
Placement(w, cand) == [word |-> w, pos |-> cand]

\* The letter random.choice returns for the n-th empty cell (n from 0, in
\* row order) in the filler sequence number seed.
FillLetter(seed, n) == Alphabet[((seed + n) % 26) + 1]

\* FillGrid without the test grid[r][c] == '': every cell gets a filler.
FillGridAll(g, size, seed) ==
  [p \in DOMAIN g |-> FillLetter(seed, p[1] * size + p[2])]

\* FillGrid with loops that stop one row and one column early.
FillGridShort(g, size, seed) ==
  [p \in DOMAIN g |->
     IF g[p] = "" /\ p[1] < size - 1 /\ p[2] < size - 1
       THEN FillLetter(seed, p[1] * size + p[2])
       ELSE g[p]]

\* grid_generation.py:64-67.
FillGrid(g, size, seed) ==
  [p \in DOMAIN g |->
     IF g[p] = ""
       THEN FillLetter(seed,
              Cardinality({q \in DOMAIN g :
                             /\ g[q] = ""
                             /\ q[1] * size + q[2] < p[1] * size + p[2]}))
       ELSE g[p]]

\* The values place_words_on_grid returns.
NoneResult == [kind |-> "None", grid |-> << >>, placed |-> << >>]

Pair(g, pl) == [kind |-> "tuple", grid |-> g, placed |-> pl]

\* While no call has returned yet.
NoResult == [kind |-> "pending", grid |-> << >>, placed |-> << >>]

\* FailureReturn handing back the grid as far as it got.
FailureReturnPartial(g, pl) == Pair(g, pl)

\* grid_generation.py:58-62.
FailureReturn(g, pl) == NoneResult

\* grid_generation.py:69.
SuccessReturn(g, pl) == Pair(g, pl)

(***************************************************************************)
(* validate_wordlists_for_grid, wordlist_utils.py, and the generation loop *)
(* of main.py.                                                             *)
(***************************************************************************)
\* str.strip(): the word without its leading and trailing spaces.
RECURSIVE Strip(_)
Strip(w) ==
  IF w = << >> THEN w
  ELSE IF Head(w) = " " THEN Strip(Tail(w))
  ELSE IF w[Len(w)] = " " THEN Strip(SubSeq(w, 1, Len(w) - 1))
  ELSE w

\* str.replace(" ", "").
RemoveSpaces(w) == SelectSeq(w, LAMBDA ch : ch # " ")

\* wordlist_utils.py:171-173.
CleanWord(w, remove_spaces) ==
  IF remove_spaces THEN RemoveSpaces(Strip(w)) ELSE Strip(w)

\* wordlist_utils.py:168-184, the problems of the words of list wl (whose
\* 0-based index is li) from position k on.
RECURSIVE ListProblems(_, _, _, _, _)
ListProblems(wl, li, grid_size, remove_spaces, k) ==
  IF k > Len(wl) THEN << >>
  ELSE LET w       == wl[k]
           w_clean == CleanWord(w, remove_spaces)
           here    == IF w # << >> /\ w_clean # << >> /\ Len(w_clean) > grid_size
                        THEN << [list_index |-> li, word |-> w,
                                 clean_word |-> w_clean, length |-> Len(w_clean)] >>
                        ELSE << >>
       IN here \o ListProblems(wl, li, grid_size, remove_spaces, k + 1)

RECURSIVE ProblemsFrom(_, _, _, _)
ProblemsFrom(wls, grid_size, remove_spaces, n) ==
  IF n > Len(wls) THEN << >>
  ELSE ListProblems(wls[n], n - 1, grid_size, remove_spaces, 1)
         \o ProblemsFrom(wls, grid_size, remove_spaces, n + 1)

\* validate_wordlists_for_grid looking at the first list only.
validate_first_list(wls, limit, spaces) ==
  IF wls = << >> THEN << >> ELSE ListProblems(wls[1], 0, limit, spaces, 1)

\* wordlist_utils.py:148-186.
validate_wordlists_for_grid(wls, grid_size, remove_spaces) ==
  ProblemsFrom(wls, grid_size, remove_spaces, 1)

\* main.py:106.
max_tries == 10

\* The orders random.shuffle(wl) can leave the list wl in, main.py:105.
ShuffledLists(wl) ==
  {[k \in 1..Len(wl) |-> wl[f[k]]] :
     f \in {g \in [1..Len(wl) -> 1..Len(wl)] :
              \A a, b \in 1..Len(wl) : a # b => g[a] # g[b]}}

\* if placed_result: a pair is true, None is false (main.py:110, 112).
Truthy(res) == res.kind = "tuple"

\* grid, placed = placed_result, main.py:117: unpacking None raises
\* TypeError.
CanUnpack(res) == res.kind = "tuple"

(***************************************************************************)
(* Inputs.                                                                 *)
(***************************************************************************)
cat  == << "c", "a", "t" >>
CAT  == << "C", "A", "T" >>
CAR  == << "C", "A", "R" >>
AB   == << "A", "B" >>
TO   == << "T", "O" >>
Eszett == << "ß" >>
NY   == << "n", " ", "y" >>
sol  == << "s", "o", "l" >>

rompecabezas ==
  << "r", "o", "m", "p", "e", "c", "a", "b", "e", "z", "a", "s" >>

independencia ==
  << "i", "n", "d", "e", "p", "e", "n", "d", "e", "n", "c", "i", "a" >>

mar    == << "m", "a", "r" >>

spaced == << "a", " ", "b", " ", "c", " ", "d", " ", "e" >>

\* The word lists the callers of the model pass.
WordLists ==
  { << >>, << cat >>, << AB >>, << Eszett >>,
    << CAT, CAR >>, << cat, CAT >>, << AB, cat >>, << AB, TO >>,
    << TO, CAR >>, << Eszett, AB >>, << NY >>,
    << CAT, sol >> }

GridSizes == 1..MaxSize

(***************************************************************************)
(* State.                                                                  *)
(***************************************************************************)
VARIABLES
  \* place_words_on_grid, the call in progress or the last one
  pc,            \* "idle", "words" (at line 20), "fill" (at line 64), "raised"
  words,         \* the argument words, the caller's list
  difficulty,    \* the argument difficulty
  size,          \* line 11
  grid,          \* line 15
  placed,        \* line 16
  words_sorted,  \* line 17
  attempts,      \* line 18
  wi,            \* the position of the for loop of line 20 in words_sorted
  result,        \* what the last call returned
  \* main() of main.py from line 100 on
  m_pc,          \* "off", "puzzle" (102), "try" (108), "in_call" (109),
                 \* "unpack" (117), "pdf" (138), "done", "TypeError"
  diff,          \* line 30
  grid_size,     \* line 35
  wordlists,     \* line 45
  total,         \* lines 81-94
  m_i,           \* i, line 102
  wl,            \* lines 103-105
  attempt,       \* line 108
  placed_result, \* lines 107, 109
  puzzles,       \* line 100: the numbers of the puzzle pages rendered
  solutions,     \* line 101: the numbers of the solution pages rendered
  \* the random source, for a call repeated from the same seed
  run,           \* 0: not seeded; 1: the first call; 2: the repeated call
  draws,         \* the outcomes the source has given since it was seeded
  tape,          \* the outcomes the source is still to give after a reseed
  first,         \* what the first call returned
  \* validate_wordlists_for_grid and main.py:50
  remove_spaces, \* the argument remove_spaces
  problems,      \* what the validation returned (main.py:50)
  \* parse_puzzle_file, puzzle_parser.py
  p_pc,          \* "off", "loop" (at line 107), "returned", "PuzzleParseError"
  lines,         \* line 95
  specs,         \* line 97
  current_block_name,        \* line 99
  current_block_background,  \* line 100
  puzzle_index,  \* line 101
  block_index,   \* line 102
  p_i,           \* i, line 104
  \* main() of main.py before line 100
  diff_choice,   \* line 28
  \* main() of main_thematic.py
  spec_i,        \* the position of the for loop of line 168 in specs
  main_block_name,   \* current_block_name of main(), lines 165, 189
  puzzle_page,   \* lines 93, 111: the page computed for each puzzle index
  pages_before_first_solution,   \* line 118
  toc_entries,   \* lines 123-135
  puzzle_imgs,   \* line 137
  solution_imgs, \* line 138
  pdf            \* the pages generate_pdf draws, in order (line 247)

engineVars == << pc, words, difficulty, size, grid, placed, words_sorted,
                 attempts, wi, result >>

mainVars == << m_pc, diff, grid_size, wordlists, total, m_i, wl, attempt,
               placed_result, puzzles, solutions >>

replayVars == << run, draws, tape, first >>

validateVars == << remove_spaces, problems >>

parserVars == << p_pc, lines, specs, current_block_name,
                 current_block_background, puzzle_index, block_index, p_i >>

setupVars == << diff_choice >>

thematicVars == << spec_i, main_block_name, puzzle_page,
                   pages_before_first_solution, toc_entries, puzzle_imgs,
                   solution_imgs, pdf >>

inputVars == << validateVars, parserVars, setupVars, thematicVars >>

vars == << engineVars, mainVars, replayVars, inputVars >>

\* The last call has returned.
Returned == pc = "idle" /\ result.kind # "pending"

\* The last call has returned a pair (grid, placements).
Succeeded == pc = "idle" /\ result.kind = "tuple"

\* No call of place_words_on_grid has been made.
EngineInit ==
  /\ pc = "idle"
  /\ words = << >>
  /\ difficulty = "easy"
  /\ size = 0
  /\ grid = EmptyGrid(0)
  /\ placed = << >>
  /\ words_sorted = << >>
  /\ attempts = 0
  /\ wi = 0
  /\ result = NoResult

\* main() of main.py is not running.
MainOff ==
  /\ m_pc = "off"
  /\ diff = "easy"
  /\ grid_size = 0
  /\ wordlists = << >>
  /\ total = 0
  /\ m_i = 0
  /\ wl = << >>
  /\ attempt = 0
  /\ placed_result = NoResult
  /\ puzzles = << >>
  /\ solutions = << >>

\* The random source is not seeded: its outcomes are free.
ReplayOff ==
  /\ run = 0
  /\ draws = << >>
  /\ tape = << >>
  /\ first = NoResult

\* Nothing has been validated.
ValidateOff ==
  /\ remove_spaces = TRUE
  /\ problems = << >>

\* The value None of block_name, block_background, name and background: a
\* value no string is equal to.
None == << "None" >>

\* parse_puzzle_file is not running.
ParserOff ==
  /\ p_pc = "off"
  /\ lines = << >>
  /\ specs = << >>
  /\ current_block_name = None
  /\ current_block_background = None
  /\ puzzle_index = 0
  /\ block_index = 0
  /\ p_i = 0

\* main.py has not asked for the difficulty.
SetupOff == diff_choice = << >>

\* main() of main_thematic.py is not running.
ThematicOff ==
  /\ spec_i = 0
  /\ main_block_name = << >>
  /\ puzzle_page = << >>
  /\ pages_before_first_solution = 0
  /\ toc_entries = << >>
  /\ puzzle_imgs = << >>
  /\ solution_imgs = << >>
  /\ pdf = << >>

InputOff == ValidateOff /\ ParserOff /\ SetupOff /\ ThematicOff

Init == EngineInit /\ MainOff /\ ReplayOff /\ InputOff

\* Enter with a placed list that outlives the call (a list created once,
\* as a default argument or a module variable is, instead of line 16).
EnterSharedPlaced(ws, d, gs) ==
  /\ words' = ws
  /\ difficulty' = d
  /\ size' = SizeOf(d, gs)
  /\ grid' = EmptyGrid(SizeOf(d, gs))
  /\ placed' = placed
  /\ words_sorted' = SortedWords(ws)
  /\ attempts' = 0
  /\ wi' = 1
  /\ pc' = IF SortedWords(ws) = << >> THEN "fill" ELSE "words"
  /\ result' = NoResult

\* Enter with a grid that outlives the call: a grid of the size asked for
\* is used again as the last call left it, instead of line 15.
EnterKeepsGrid(ws, d, gs) ==
  /\ words' = ws
  /\ difficulty' = d
  /\ size' = SizeOf(d, gs)
  /\ grid' = IF DOMAIN grid = Cells(SizeOf(d, gs)) THEN grid
             ELSE EmptyGrid(SizeOf(d, gs))
  /\ placed' = << >>
  /\ words_sorted' = SortedWords(ws)
  /\ attempts' = 0
  /\ wi' = 1
  /\ pc' = IF SortedWords(ws) = << >> THEN "fill" ELSE "words"
  /\ result' = NoResult

\* grid_generation.py:10-18.
Enter(ws, d, gs) ==
  /\ words' = ws
  /\ difficulty' = d
  /\ size' = SizeOf(d, gs)
  /\ grid' = EmptyGrid(SizeOf(d, gs))
  /\ placed' = << >>
  /\ words_sorted' = SortedWords(ws)
  /\ attempts' = 0
  /\ wi' = 1
  /\ pc' = IF SortedWords(ws) = << >> THEN "fill" ELSE "words"
  /\ result' = NoResult

\* A caller invokes place_words_on_grid.
Call ==
  /\ pc = "idle"
  /\ \E ws \in WordLists, d \in DifficultyLevel, gs \in GridSizes :
       Enter(ws, d, gs)
  /\ UNCHANGED << mainVars, replayVars, inputVars >>

\* PlaceStep with a for loop that does not move on to the next word.
PlaceStepStays(k) ==
  \E w \in {Upper(words_sorted[wi])} :
  \E hit \in {FirstFit(grid, w, size, DirectionsOf(difficulty), k)} :
  \E cand \in {ShuffledAt(size, DirectionsOf(difficulty), k, hit)} :
     /\ hit # 0
     /\ grid' = WriteWord(grid, w, cand, size)
     /\ placed' = Append(placed, Placement(w, cand))
     /\ UNCHANGED << pc, wi, words, difficulty, size, words_sorted, attempts, result >>

\* grid_generation.py:20-56, one word of the loop with shuffle outcome k: the
\* first fitting candidate is committed.  w is the word uppercased, hit the
\* position of that candidate in the shuffled list and cand the candidate.
PlaceStep(k) ==
  \E w \in {Upper(words_sorted[wi])} :
  \E hit \in {FirstFit(grid, w, size, DirectionsOf(difficulty), k)} :
  \E cand \in {ShuffledAt(size, DirectionsOf(difficulty), k, hit)} :
     /\ hit # 0
     /\ IF WriteRaises(w, cand, size)
          THEN /\ pc' = "raised"
               /\ UNCHANGED << grid, placed, wi >>
          ELSE /\ grid' = WriteWord(grid, w, cand, size)
               /\ placed' = Append(placed, Placement(w, cand))
               /\ wi' = wi + 1
               /\ pc' = IF wi = Len(words_sorted) THEN "fill" ELSE "words"
     /\ UNCHANGED << words, difficulty, size, words_sorted, attempts, result >>

\* FailStep going on to the next word instead of returning.
FailStepSkips(k) ==
  LET w == Upper(words_sorted[wi])
  IN /\ FirstFit(grid, w, size, DirectionsOf(difficulty), k) = 0
     /\ attempts' = attempts + 1
     /\ wi' = wi + 1
     /\ pc' = IF wi = Len(words_sorted) THEN "fill" ELSE "words"
     /\ UNCHANGED << words, difficulty, size, grid, placed, words_sorted, result >>

\* grid_generation.py:58-62, one word of the loop with shuffle outcome k: no
\* candidate fits and the call returns None.
FailStep(k) ==
  LET w == Upper(words_sorted[wi])
  IN /\ FirstFit(grid, w, size, DirectionsOf(difficulty), k) = 0
     /\ attempts' = attempts + 1
     /\ result' = FailureReturn(grid, placed)
     /\ pc' = "idle"
     /\ UNCHANGED << words, difficulty, size, grid, placed, words_sorted, wi >>

ShuffleOutcomes == 0..(NumCandidates(size, DirectionsOf(difficulty)) - 1)

PlaceWord ==
  /\ pc = "words"
  /\ \E k \in ShuffleOutcomes : PlaceStep(k)
  /\ UNCHANGED << mainVars, replayVars, inputVars >>

FailWord ==
  /\ pc = "words"
  /\ \E k \in ShuffleOutcomes : FailStep(k)
  /\ UNCHANGED << mainVars, replayVars, inputVars >>

\* grid_generation.py:64-69 with filler sequence seed.
FillStep(seed) ==
  /\ grid' = FillGrid(grid, size, seed)
  /\ result' = SuccessReturn(FillGrid(grid, size, seed), placed)
  /\ pc' = "idle"
  /\ UNCHANGED << words, difficulty, size, placed, words_sorted, attempts, wi >>

FillSeeds == 0..(MaxFill - 1)

Fill ==
  /\ pc = "fill"
  /\ \E seed \in FillSeeds : FillStep(seed)
  /\ UNCHANGED << mainVars, replayVars, inputVars >>

\* Calls of place_words_on_grid, one after the other.
Next == Call \/ PlaceWord \/ FailWord \/ Fill

Spec == Init /\ [][Next]_vars

\* The longest candidate list of the calls followed to their end.
MaxCandidates == 18

\* A caller invokes place_words_on_grid with a grid size and a difficulty
\* whose candidate list has at most MaxCandidates entries.
LiveCall ==
  /\ pc = "idle"
  /\ \E ws \in WordLists, d \in DifficultyLevel, gs \in GridSizes :
       /\ NumCandidates(gs, DirectionsOf(d)) <= MaxCandidates
       /\ Enter(ws, d, gs)
  /\ UNCHANGED << mainVars, replayVars, inputVars >>

LiveNext == LiveCall \/ PlaceWord \/ FailWord \/ Fill

\* Calls that, once entered, run on: the function is straight-line code
\* with for loops, and nothing makes it wait.
SpecLive == Init /\ [][LiveNext]_vars /\ WF_vars(PlaceWord \/ FailWord \/ Fill)

(***************************************************************************)
(* place_words_on_grid on the 4 x 4 grid under EASY, with words that       *)
(* upper() lengthens ("ß" becomes "SS") among words it does not.           *)
(***************************************************************************)
SzSz == << "ß", "ß" >>

SzSzSz == << "ß", "ß", "ß" >>

CaseWordLists ==
  { << CAT, SzSz >>, << Eszett, AB >>, << AB, TO >>, << TO, AB >>,
    << SzSz, cat >>, << SzSzSz >> }

CaseSizes == {4}

CaseCall ==
  /\ pc = "idle"
  /\ \E ws \in CaseWordLists, gs \in CaseSizes : Enter(ws, "easy", gs)
  /\ UNCHANGED << mainVars, replayVars, inputVars >>

CaseNext == CaseCall \/ PlaceWord \/ FailWord \/ Fill

SpecCase == Init /\ [][CaseNext]_vars

(***************************************************************************)
(* place_words_on_grid(["CAT", "DOG"], DifficultyLevel.EASY, grid_size):   *)
(* the two words under the directions (0,1), (1,0), on the 5 x 5 grid and, *)
(* for the failure path, on a grid too small for them.                     *)
(***************************************************************************)
DOG == << "D", "O", "G" >>

ScenarioSizes == {2, 5}

ScenarioCall ==
  /\ pc = "idle"
  /\ \E gs \in ScenarioSizes : Enter(<< CAT, DOG >>, "easy", gs)
  /\ UNCHANGED << mainVars, replayVars, inputVars >>

ScenarioNext == ScenarioCall \/ PlaceWord \/ FailWord \/ Fill

SpecScenario == Init /\ [][ScenarioNext]_vars

(***************************************************************************)
(* main() of main.py from the generation loop on.                          *)
(***************************************************************************)

\* What main() has gathered at line 100: the difficulty, a grid size that
\* ask_grid_size accepts for it, word lists as prompt_wordlists returns
\* them and the number of puzzles.
MainInputs ==
  { [diff |-> "easy", grid_size |-> 8, wordlists |-> << << sol >> >>, total |-> 2],
    [diff |-> "easy", grid_size |-> 8,
     wordlists |-> << << spaced >>, << mar >> >>, total |-> 2],
    [diff |-> "easy", grid_size |-> 8,
     wordlists |-> << << sol, spaced >> >>, total |-> 1],
    [diff |-> "easy", grid_size |-> 8, wordlists |-> << << NY >> >>, total |-> 1] }

\* main.py:50-73: the generation loop is reached only when the validation
\* reports no problem.
MainInit ==
  /\ EngineInit
  /\ ReplayOff
  /\ InputOff
  /\ \E inp \in MainInputs :
       /\ validate_wordlists_for_grid(inp.wordlists, inp.grid_size, TRUE) = << >>
       /\ diff = inp.diff
       /\ grid_size = inp.grid_size
       /\ wordlists = inp.wordlists
       /\ total = inp.total
  /\ m_pc = "puzzle"
  /\ m_i = 1
  /\ wl = << >>
  /\ attempt = 0
  /\ placed_result = NoResult
  /\ puzzles = << >>
  /\ solutions = << >>

\* main.py:102-107: the next puzzle, or the end of the loop.
MainNextPuzzle ==
  /\ m_pc = "puzzle"
  /\ IF m_i <= total
       THEN /\ \E order \in ShuffledLists(wordlists[((m_i - 1) % Len(wordlists)) + 1]) :
                 wl' = order
            /\ placed_result' = NoneResult
            /\ attempt' = 1
            /\ m_pc' = "try"
       ELSE /\ m_pc' = "pdf"
            /\ UNCHANGED << wl, placed_result, attempt >>
  /\ UNCHANGED << diff, grid_size, wordlists, total, m_i, puzzles, solutions >>
  /\ UNCHANGED << engineVars, replayVars, inputVars >>

\* main.py:108-109: one attempt calls place_words_on_grid; after max_tries
\* attempts the for loop is over.
MainTry ==
  /\ m_pc = "try"
  /\ IF attempt <= max_tries
       THEN /\ pc = "idle"
            /\ Enter(wl, diff, grid_size)
            /\ m_pc' = "in_call"
       ELSE /\ m_pc' = "unpack"
            /\ UNCHANGED engineVars
  /\ UNCHANGED << replayVars, inputVars >>
  /\ UNCHANGED << diff, grid_size, wordlists, total, m_i, wl, attempt,
                  placed_result, puzzles, solutions >>

\* main.py:109-116: the call has returned; a true result leaves the loop, a
\* false one prints the warning and goes on with the next attempt.
MainReturned ==
  /\ m_pc = "in_call"
  /\ Returned
  /\ placed_result' = result
  /\ IF Truthy(result)
       THEN m_pc' = "unpack" /\ UNCHANGED attempt
       ELSE m_pc' = "try" /\ attempt' = attempt + 1
  /\ UNCHANGED << diff, grid_size, wordlists, total, m_i, wl, puzzles, solutions >>
  /\ UNCHANGED << engineVars, replayVars, inputVars >>

\* main.py:117-137: the result is unpacked and the two pages are rendered.
MainUnpack ==
  /\ m_pc = "unpack"
  /\ IF CanUnpack(placed_result)
       THEN /\ puzzles' = Append(puzzles, m_i)
            /\ solutions' = Append(solutions, m_i)
            /\ m_i' = m_i + 1
            /\ m_pc' = "puzzle"
       ELSE /\ m_pc' = "TypeError"
            /\ UNCHANGED << puzzles, solutions, m_i >>
  /\ UNCHANGED << diff, grid_size, wordlists, total, wl, attempt, placed_result >>
  /\ UNCHANGED << engineVars, replayVars, inputVars >>

\* main.py:138-140.
MainPdf ==
  /\ m_pc = "pdf"
  /\ m_pc' = "done"
  /\ UNCHANGED << diff, grid_size, wordlists, total, m_i, wl, attempt,
                  placed_result, puzzles, solutions >>
  /\ UNCHANGED << engineVars, replayVars, inputVars >>

MainNext ==
  \/ MainNextPuzzle \/ MainTry \/ MainReturned \/ MainUnpack \/ MainPdf
  \/ PlaceWord \/ FailWord \/ Fill

SpecMain == MainInit /\ [][MainNext]_vars

(***************************************************************************)
(* place_words_on_grid called twice with the same arguments, the random    *)
(* source seeded the same before each call (random.seed(s)): the second    *)
(* call is given the outcomes the first call was given, in order.          *)
(***************************************************************************)
ReplayWordLists ==
  { << >>, << cat >>, << Eszett >>, << CAT, sol >> }

ReplayInit == EngineInit /\ MainOff /\ ReplayOff /\ InputOff

\* random.seed(s), then the first call.
SeededCall ==
  /\ run = 0
  /\ pc = "idle"
  /\ \E ws \in ReplayWordLists, d \in DifficultyLevel, gs \in GridSizes :
       Enter(ws, d, gs)
  /\ run' = 1
  /\ UNCHANGED << draws, tape, first, mainVars, inputVars >>

\* The first call: the source gives any outcome, and the outcome is noted.
SeededPlaceWord ==
  /\ run = 1
  /\ pc = "words"
  /\ \E k \in ShuffleOutcomes : PlaceStep(k) /\ draws' = Append(draws, k)
  /\ UNCHANGED << run, tape, first, mainVars, inputVars >>

SeededFailWord ==
  /\ run = 1
  /\ pc = "words"
  /\ \E k \in ShuffleOutcomes : FailStep(k) /\ draws' = Append(draws, k)
  /\ UNCHANGED << run, tape, first, mainVars, inputVars >>

SeededFill ==
  /\ run = 1
  /\ pc = "fill"
  /\ \E seed \in FillSeeds : FillStep(seed) /\ draws' = Append(draws, seed)
  /\ UNCHANGED << run, tape, first, mainVars, inputVars >>

\* random.seed(s) again, then the second call with the arguments of the
\* first.
ReplayCall ==
  /\ run = 1
  /\ Returned
  /\ first' = result
  /\ tape' = draws
  /\ draws' = << >>
  /\ run' = 2
  /\ Enter(words, difficulty, size)
  /\ UNCHANGED << mainVars, inputVars >>

\* The second call: the source gives the outcomes of the first call again.
ReplayPlaceWord ==
  /\ run = 2
  /\ pc = "words"
  /\ tape # << >>
  /\ Head(tape) \in ShuffleOutcomes
  /\ PlaceStep(Head(tape))
  /\ tape' = Tail(tape)
  /\ draws' = Append(draws, Head(tape))
  /\ UNCHANGED << run, first, mainVars, inputVars >>

ReplayFailWord ==
  /\ run = 2
  /\ pc = "words"
  /\ tape # << >>
  /\ Head(tape) \in ShuffleOutcomes
  /\ FailStep(Head(tape))
  /\ tape' = Tail(tape)
  /\ draws' = Append(draws, Head(tape))
  /\ UNCHANGED << run, first, mainVars, inputVars >>

ReplayFill ==
  /\ run = 2
  /\ pc = "fill"
  /\ tape # << >>
  /\ Head(tape) \in FillSeeds
  /\ FillStep(Head(tape))
  /\ tape' = Tail(tape)
  /\ draws' = Append(draws, Head(tape))
  /\ UNCHANGED << run, first, mainVars, inputVars >>

ReplayNext ==
  \/ SeededCall \/ SeededPlaceWord \/ SeededFailWord \/ SeededFill
  \/ ReplayCall \/ ReplayPlaceWord \/ ReplayFailWord \/ ReplayFill

SpecReplay == ReplayInit /\ [][ReplayNext]_vars

(***************************************************************************)
(* The questions main() asks before the generation loop: the difficulty    *)
(* (main.py:25-32, main_thematic.py:29-44), the grid size (ask_grid_size,  *)
(* grid_size_utils.py), the word lists and their validation                *)
(* (main.py:45-73).  A line typed by the user is a sequence of characters. *)
(* m_pc is "ask_difficulty", "ask_grid_size", "prompt_wordlists",          *)
(* "validate", "rejected" (the return of main.py:73) or "puzzle" in        *)
(* main.py, and "t_ask_difficulty", "t_ask_grid_size" or "t_ready" in      *)
(* main_thematic.py.                                                       *)
(***************************************************************************)
Digits == << "0", "1", "2", "3", "4", "5", "6", "7", "8", "9" >>

IsDigit(ch) == \E n \in 1..10 : Digits[n] = ch

DigitValue(ch) == (CHOOSE n \in 1..10 : Digits[n] = ch) - 1

\* The value of a run of digits, the underscores between them left out.
RECURSIVE DigitsValue(_, _)
DigitsValue(t, acc) ==
  IF t = << >> THEN acc
  ELSE IF Head(t) = "_" THEN DigitsValue(Tail(t), acc)
  ELSE DigitsValue(Tail(t), acc * 10 + DigitValue(Head(t)))

\* What int() takes after the sign: digits, with single underscores between
\* two digits.
ValidDigits(t) ==
  /\ t # << >>
  /\ \A n \in 1..Len(t) :
       \/ IsDigit(t[n])
       \/ /\ t[n] = "_"
          /\ 1 < n /\ n < Len(t)
          /\ IsDigit(t[n - 1]) /\ IsDigit(t[n + 1])

\* int(raw) on a string: ok is FALSE where Python raises ValueError.
int(raw) ==
  LET t    == Strip(raw)
      body == IF t # << >> /\ Head(t) \in {"+", "-"} THEN Tail(t) ELSE t
  IN IF ~ValidDigits(body) THEN [ok |-> FALSE, val |-> 0]
     ELSE IF Head(t) = "-" THEN [ok |-> TRUE, val |-> 0 - DigitsValue(body, 0)]
     ELSE [ok |-> TRUE, val |-> DigitsValue(body, 0)]

\* list(DifficultyLevel), difficulty_levels.py:8-11.
DifficultyList == << "easy", "medium", "hard" >>

\* main.py:28-32: the difficulty for the line typed; any exception (int()
\* or the index) gives EASY, and a negative index counts from the end.
MainDifficultyOf(raw) ==
  LET choice == IF Strip(raw) = << >> THEN << "1" >> ELSE Strip(raw)
      v      == int(choice)
      idx    == v.val - 1
  IN IF v.ok /\ 0 - 3 <= idx /\ idx < 3
       THEN DifficultyList[PyIndex(idx, 3) + 1]
       ELSE "easy"

\* main_thematic.py:35-44, one round of the loop: the difficulty returned
\* for the line typed, or "again" when the loop asks again.
ThematicDifficultyOf(raw) ==
  LET t == Strip(raw)
  IN IF t = << >> THEN "medium"
     ELSE IF t = << "1" >> THEN "easy"
     ELSE IF t = << "2" >> THEN "medium"
     ELSE IF t = << "3" >> THEN "hard"
     ELSE "again"

\* ask_grid_size with the test min_size <= val <= max_size left out.
ask_grid_size_unchecked(settings, raw) ==
  LET t == Strip(raw)
  IN IF t = << >> THEN [returned |-> TRUE, val |-> settings.grid_default]
     ELSE IF int(t).ok THEN [returned |-> TRUE, val |-> int(t).val]
     ELSE [returned |-> FALSE, val |-> 0]

\* grid_size_utils.py:11-21, one round of the loop for the line typed: the
\* value returned, or returned = FALSE when the loop asks again.
ask_grid_size(settings, raw) ==
  LET t == Strip(raw)
  IN IF t = << >> THEN [returned |-> TRUE, val |-> settings.grid_default]
     ELSE IF /\ int(t).ok
             /\ settings.grid_min <= int(t).val
             /\ int(t).val <= settings.grid_max
       THEN [returned |-> TRUE, val |-> int(t).val]
     ELSE [returned |-> FALSE, val |-> 0]

\* Lines typed at the two questions.
DifficultyInputs ==
  { << >>, << "1" >>, << "2" >>, << "3" >>, << " ", "2" >>, << "0" >>,
    << "-", "1" >>, << "4" >>, << "x" >> }

SizeInputs ==
  { << >>, << " " >>, << "a", "b", "c" >>, << "-", "9" >>, << "7" >>,
    << "8" >>, << "9" >>, << "1", "0" >>, << "1", "1" >>, << " ", "1", "2", " " >>,
    << "1", "_", "3" >>, << "+", "1", "4" >>, << "0", "1", "5" >>,
    << "1", "6" >>, << "1", "9" >>, << "2", "0" >>, << "2", "1" >>,
    << "1", "2", "." , "0" >> }

\* Word lists as prompt_wordlists returns them: lists of stripped,
\* non-empty words.
SetupWordLists ==
  { << << sol >> >>, << << spaced >>, << mar >> >>, << << sol, spaced >> >>,
    << << independencia >> >>, << << rompecabezas, NY >>, << mar >> >> }

SetupInit ==
  /\ EngineInit
  /\ ReplayOff
  /\ InputOff
  /\ m_pc \in {"ask_difficulty", "t_ask_difficulty"}
  /\ diff = "easy"
  /\ grid_size = 0
  /\ wordlists = << >>
  /\ total = 0
  /\ m_i = 0
  /\ wl = << >>
  /\ attempt = 0
  /\ placed_result = NoResult
  /\ puzzles = << >>
  /\ solutions = << >>

\* main.py:28-34.
MainAskDifficulty ==
  /\ m_pc = "ask_difficulty"
  /\ \E raw \in DifficultyInputs :
       /\ diff_choice' = (IF Strip(raw) = << >> THEN << "1" >> ELSE Strip(raw))
       /\ diff' = MainDifficultyOf(raw)
  /\ m_pc' = "ask_grid_size"
  /\ UNCHANGED << grid_size, wordlists, total, m_i, wl, attempt,
                  placed_result, puzzles, solutions >>
  /\ UNCHANGED << engineVars, replayVars, validateVars, parserVars, thematicVars >>

\* main_thematic.py:78-79 (_ask_difficulty, lines 29-44).
ThematicAskDifficulty ==
  /\ m_pc = "t_ask_difficulty"
  /\ \E raw \in DifficultyInputs :
       IF ThematicDifficultyOf(raw) = "again"
         THEN UNCHANGED << diff, m_pc >>
         ELSE diff' = ThematicDifficultyOf(raw) /\ m_pc' = "t_ask_grid_size"
  /\ UNCHANGED << grid_size, wordlists, total, m_i, wl, attempt,
                  placed_result, puzzles, solutions >>
  /\ UNCHANGED << engineVars, replayVars, inputVars >>

\* main.py:34-35 and main_thematic.py:79-80: ask_grid_size(settings).
AskGridSize ==
  /\ m_pc \in {"ask_grid_size", "t_ask_grid_size"}
  /\ \E raw \in SizeInputs :
       LET r == ask_grid_size(difficulty_settings(diff), raw)
       IN IF r.returned
            THEN /\ grid_size' = r.val
                 /\ m_pc' = IF m_pc = "ask_grid_size" THEN "prompt_wordlists"
                            ELSE "t_ready"
            ELSE UNCHANGED << grid_size, m_pc >>
  /\ UNCHANGED << diff, wordlists, total, m_i, wl, attempt,
                  placed_result, puzzles, solutions >>
  /\ UNCHANGED << engineVars, replayVars, inputVars >>

\* main.py:45.
MainPromptWordlists ==
  /\ m_pc = "prompt_wordlists"
  /\ wordlists' \in SetupWordLists
  /\ m_pc' = "validate"
  /\ UNCHANGED << diff, grid_size, total, m_i, wl, attempt,
                  placed_result, puzzles, solutions >>
  /\ UNCHANGED << engineVars, replayVars, inputVars >>

\* main.py:50-73: the validation; main() returns when it reports a problem.
MainValidate ==
  /\ m_pc = "validate"
  /\ problems' = validate_wordlists_for_grid(wordlists, grid_size, TRUE)
  /\ m_pc' = IF validate_wordlists_for_grid(wordlists, grid_size, TRUE) # << >>
               THEN "rejected" ELSE "puzzle"
  /\ UNCHANGED << diff, grid_size, wordlists, total, m_i, wl, attempt,
                  placed_result, puzzles, solutions >>
  /\ UNCHANGED << engineVars, replayVars, remove_spaces, parserVars,
                  setupVars, thematicVars >>

SetupNext ==
  \/ MainAskDifficulty \/ ThematicAskDifficulty \/ AskGridSize
  \/ MainPromptWordlists \/ MainValidate

SpecSetup == SetupInit /\ [][SetupNext]_vars

(***************************************************************************)
(* validate_wordlists_for_grid called on its own (wordlist_utils.py:       *)
(* 148-186): the arguments are drawn at the start, the call stores what    *)
(* the function returns.  m_pc is "v_call", then "v_returned".             *)
(***************************************************************************)
padded == << " ", "a", "b", " " >>

blank == << " ", " " >>

ValidateWordLists ==
  { << >>, << << >> >>, << << sol >> >>, << << spaced, mar >> >>,
    << << sol, independencia >>, << rompecabezas, NY >> >>,
    << << padded >>, << blank, sol, << >> >> >>,
    << << independencia, sol, independencia >> >>,
    << << mar >>, << >>, << spaced, padded >> >> }

ValidateSizes == {0, 2, 3, 5, 8, 12, 13}

ValidateInit ==
  /\ EngineInit
  /\ ReplayOff
  /\ ParserOff
  /\ SetupOff
  /\ ThematicOff
  /\ m_pc = "v_call"
  /\ diff = "easy"
  /\ grid_size \in ValidateSizes
  /\ wordlists \in ValidateWordLists
  /\ remove_spaces \in BOOLEAN
  /\ problems = << >>
  /\ total = 0
  /\ m_i = 0
  /\ wl = << >>
  /\ attempt = 0
  /\ placed_result = NoResult
  /\ puzzles = << >>
  /\ solutions = << >>

ValidateCall ==
  /\ m_pc = "v_call"
  /\ problems' = validate_wordlists_for_grid(wordlists, grid_size, remove_spaces)
  /\ m_pc' = "v_returned"
  /\ UNCHANGED << diff, grid_size, wordlists, total, m_i, wl, attempt,
                  placed_result, puzzles, solutions >>
  /\ UNCHANGED << engineVars, replayVars, remove_spaces, parserVars,
                  setupVars, thematicVars >>

ValidateNext == ValidateCall

SpecValidate == ValidateInit /\ [][ValidateNext]_vars

(***************************************************************************)
(* puzzle_parser.py.  A file is the list of its lines, a line a sequence   *)
(* of characters.  p_pc is "loop" while the while loop of                  *)
(* parse_puzzle_file runs (lines 107-153), "returned" after line 155 and   *)
(* "error" once PuzzleParseError is raised; p_i is the variable i.         *)
(***************************************************************************)
\* str.lower() on one character.
LowerChar(ch) ==
  IF \E n \in 1..26 : Alphabet[n] = ch
    THEN LowerAlphabet[CHOOSE n \in 1..26 : Alphabet[n] = ch]
    ELSE ch

\* line.lower().
Lower(line) == [n \in 1..Len(line) |-> LowerChar(line[n])]

\* lower.startswith(prefix).
StartsWith(line, prefix) ==
  /\ Len(line) >= Len(prefix)
  /\ SubSeq(line, 1, Len(prefix)) = prefix

\* line.split(":", 1)[1]: what follows the first colon.
AfterColon(line) ==
  LET c == CHOOSE n \in 1..Len(line) :
             line[n] = ":" /\ \A m \in 1..(n - 1) : line[m] # ":"
  IN SubSeq(line, c + 1, Len(line))

\* str(index) of an index >= 0, as the f-string of line 181 formats it.
RECURSIVE IntToStr(_)
IntToStr(n) ==
  IF n < 10 THEN << Digits[n + 1] >>
  ELSE IntToStr(n \div 10) \o << Digits[(n % 10) + 1] >>

BlockOpen == << "[", "B", "l", "o", "c", "k", "]" >>

BlockClose == << "[", "/", "B", "l", "o", "c", "k", "]" >>

PuzzleOpen == << "[", "P", "u", "z", "z", "l", "e", "]" >>

PuzzleClose == << "[", "/", "P", "u", "z", "z", "l", "e", "]" >>

NamePrefix == << "n", "a", "m", "e", ":" >>

BackgroundPrefix == << "b", "a", "c", "k", "g", "r", "o", "u", "n", "d", ":" >>

TitlePrefix == << "t", "i", "t", "l", "e", ":" >>

FactPrefix == << "f", "a", "c", "t", ":" >>

WordsPrefix == << "w", "o", "r", "d", "s", ":" >>

\* The inner while loops of lines 116-117 and 135-136: from the 0-based
\* line j on, the first line that is the closing tag, or n when none is.
RECURSIVE ScanTo(_, _, _)
ScanTo(ls, j, tag) ==
  IF j < Len(ls) /\ Strip(ls[j + 1]) # tag THEN ScanTo(ls, j + 1, tag) ELSE j

\* The for loop of _parse_block_block, lines 169-177, from line k on.
RECURSIVE BlockFields(_, _, _, _)
BlockFields(block_lines, k, name, background) ==
  IF k > Len(block_lines) THEN [name |-> name, background |-> background]
  ELSE LET line == Strip(block_lines[k])
       IN IF line = << >> THEN BlockFields(block_lines, k + 1, name, background)
          ELSE IF StartsWith(Lower(line), NamePrefix)
            THEN BlockFields(block_lines, k + 1, Strip(AfterColon(line)), background)
          ELSE IF StartsWith(Lower(line), BackgroundPrefix)
            THEN BlockFields(block_lines, k + 1, name, Strip(AfterColon(line)))
          ELSE BlockFields(block_lines, k + 1, name, background)

\* _parse_block_block, lines 158-183.
parse_block_block(block_lines, index) ==
  LET r == BlockFields(block_lines, 1, None, None)
  IN IF r.name = None \/ r.name = << >>
       THEN [name |-> << "B", "l", "o", "c", "k", " " >> \o IntToStr(index),
             background |-> r.background]
       ELSE r

\* The for loop of _parse_single_block, lines 192-208, from line k on.
RECURSIVE PuzzleFields(_, _, _)
PuzzleFields(block_lines, k, acc) ==
  IF k > Len(block_lines) THEN acc
  ELSE LET line == Strip(block_lines[k])
       IN IF line = << >> THEN PuzzleFields(block_lines, k + 1, acc)
          ELSE IF acc.mode = "header"
            THEN IF StartsWith(Lower(line), TitlePrefix)
                   THEN PuzzleFields(block_lines, k + 1,
                          [acc EXCEPT !.title = Strip(AfterColon(line))])
                 ELSE IF StartsWith(Lower(line), FactPrefix)
                   THEN PuzzleFields(block_lines, k + 1,
                          [acc EXCEPT !.fact = Strip(AfterColon(line))])
                 ELSE IF StartsWith(Lower(line), WordsPrefix)
                   THEN PuzzleFields(block_lines, k + 1, [acc EXCEPT !.mode = "words"])
                 ELSE PuzzleFields(block_lines, k + 1, acc)
          ELSE PuzzleFields(block_lines, k + 1,
                 [acc EXCEPT !.words = Append(acc.words, line)])

\* Lines 217-223: the words without their repetitions, in order.
RECURSIVE CleanWords(_, _)
CleanWords(ws, k) ==
  IF k > Len(ws) THEN << >>
  ELSE IF \E m \in 1..(k - 1) : ws[m] = ws[k] THEN CleanWords(ws, k + 1)
  ELSE << ws[k] >> \o CleanWords(ws, k + 1)

\* PuzzleSpec(index, title, fact, words), lines 67-75 and 225.
PuzzleSpec(index, title, fact, ws) ==
  [index |-> index, title |-> title, fact |-> fact, words |-> ws,
   block_name |-> None, block_background |-> None]

\* _parse_single_block numbering its puzzles from 1.
parse_single_block_from_one(block_lines, index) ==
  LET acc == PuzzleFields(block_lines, 1,
               [title |-> None, fact |-> None, words |-> << >>, mode |-> "header"])
  IN IF \/ acc.title = None \/ acc.title = << >>
        \/ acc.fact = None \/ acc.fact = << >>
        \/ acc.words = << >>
       THEN [raised |-> TRUE, spec |-> PuzzleSpec(index, << >>, << >>, << >>)]
       ELSE [raised |-> FALSE,
             spec |-> PuzzleSpec(index + 1, Strip(acc.title), Strip(acc.fact),
                                 CleanWords(acc.words, 1))]

\* _parse_single_block without the test of line 212: a puzzle without a
\* fact is returned.
parse_single_block_without_fact(block_lines, index) ==
  LET acc == PuzzleFields(block_lines, 1,
               [title |-> None, fact |-> << >>, words |-> << >>, mode |-> "header"])
  IN IF \/ acc.title = None \/ acc.title = << >>
        \/ acc.words = << >>
       THEN [raised |-> TRUE, spec |-> PuzzleSpec(index, << >>, << >>, << >>)]
       ELSE [raised |-> FALSE,
             spec |-> PuzzleSpec(index, Strip(acc.title), Strip(acc.fact),
                                 CleanWords(acc.words, 1))]

\* _parse_single_block, lines 186-225: raised is TRUE where it raises
\* PuzzleParseError.
parse_single_block(block_lines, index) ==
  LET acc == PuzzleFields(block_lines, 1,
               [title |-> None, fact |-> None, words |-> << >>, mode |-> "header"])
  IN IF \/ acc.title = None \/ acc.title = << >>
        \/ acc.fact = None \/ acc.fact = << >>
        \/ acc.words = << >>
       THEN [raised |-> TRUE, spec |-> PuzzleSpec(index, << >>, << >>, << >>)]
       ELSE [raised |-> FALSE,
             spec |-> PuzzleSpec(index, Strip(acc.title), Strip(acc.fact),
                                 CleanWords(acc.words, 1))]

\* The sections a file is written from, each with the lines it is written
\* as.  B1 is a block with a name and a background, B2 a block without
\* either, B3 a block with a name only, written with indentation and a
\* capitalised key; P1 and P2 are puzzles, P2 with a blank line and a
\* repeated word; J is a line outside every section.
B1 ==
  [kind |-> "block", name |-> << "N" >>, background |-> << "b", "g" >>,
   title |-> << >>, fact |-> << >>,
   text |-> << << "[", "B", "l", "o", "c", "k", "]" >>,
           << "n", "a", "m", "e", ":", " ", "N" >>,
           << "b", "a", "c", "k", "g", "r", "o", "u", "n", "d", ":", " ", "b", "g" >>,
           << "[", "/", "B", "l", "o", "c", "k", "]" >> >>]

B2 ==
  [kind |-> "block", name |-> None, background |-> None,
   title |-> << >>, fact |-> << >>,
   text |-> << << "[", "B", "l", "o", "c", "k", "]" >>,
           << "[", "/", "B", "l", "o", "c", "k", "]" >> >>]

B3 ==
  [kind |-> "block", name |-> << "M" >>, background |-> None,
   title |-> << >>, fact |-> << >>,
   text |-> << << " ", " ", "[", "B", "l", "o", "c", "k", "]", " " >>,
           << " ", "N", "a", "m", "e", ":", " ", " ", "M", " " >>,
           << "[", "/", "B", "l", "o", "c", "k", "]" >> >>]

P1 ==
  [kind |-> "puzzle", name |-> None, background |-> None,
   title |-> << "t" >>, fact |-> << "f" >>,
   text |-> << << "[", "P", "u", "z", "z", "l", "e", "]" >>,
           << "t", "i", "t", "l", "e", ":", " ", "t" >>,
           << "f", "a", "c", "t", ":", " ", "f" >>,
           << "w", "o", "r", "d", "s", ":" >>,
           << "w" >>,
           << "[", "/", "P", "u", "z", "z", "l", "e", "]" >> >>]

P2 ==
  [kind |-> "puzzle", name |-> None, background |-> None,
   title |-> << "u", ":", "v" >>, fact |-> << "g" >>,
   text |-> << << " ", "[", "P", "u", "z", "z", "l", "e", "]" >>,
           << "F", "a", "c", "t", ":", "g" >>,
           << "T", "I", "T", "L", "E", ":", " ", "u", ":", "v", " " >>,
           << >>,
           << "w", "o", "r", "d", "s", ":" >>,
           << "x", " ", "y" >>,
           << "z" >>,
           << "x", " ", "y" >>,
           << "[", "/", "P", "u", "z", "z", "l", "e", "]", " " >> >>]

J ==
  [kind |-> "other", name |-> None, background |-> None,
   title |-> << >>, fact |-> << >>,
   text |-> << << "j", "u", "n", "k" >> >>]

FileItems == {B1, B2, B3, P1, P2, J}

\* The longest file of FileItems the parser is run on, in sections.
MaxItems == 3

\* Longer files: two blocks with puzzles before, between and after them.
LongFiles ==
  { << P1, B1, P2, B3, P1 >>, << J, B2, P1, B2, J, P2, P1 >> }

WellFormedFiles == UNION {[1..n -> FileItems] : n \in 0..MaxItems} \cup LongFiles

\* The lines of the file written from the sections its.
RECURSIVE FileLines(_, _)
FileLines(its, k) ==
  IF k > Len(its) THEN << >> ELSE its[k].text \o FileLines(its, k + 1)

FileText == [its \in WellFormedFiles |-> FileLines(its, 1)]

\* Files that are not written section by section: a block and a puzzle
\* that are not closed, a puzzle without its title, and a block written
\* among the words of a puzzle.
OtherFiles ==
  { << << "[", "B", "l", "o", "c", "k", "]" >>,
    << "n", "a", "m", "e", ":", " ", "N" >> >>,
    << << "[", "P", "u", "z", "z", "l", "e", "]" >>,
    << "t", "i", "t", "l", "e", ":", " ", "t" >>,
    << "f", "a", "c", "t", ":", " ", "f" >>,
    << "w", "o", "r", "d", "s", ":" >>,
    << "w" >> >>,
    << << "[", "P", "u", "z", "z", "l", "e", "]" >>,
    << "f", "a", "c", "t", ":", " ", "f" >>,
    << "w", "o", "r", "d", "s", ":" >>,
    << "w" >>,
    << "[", "/", "P", "u", "z", "z", "l", "e", "]" >> >>,
    << << "[", "P", "u", "z", "z", "l", "e", "]" >>,
    << "t", "i", "t", "l", "e", ":", " ", "t" >>,
    << "f", "a", "c", "t", ":", " ", "f" >>,
    << "w", "o", "r", "d", "s", ":" >>,
    << "w" >>,
    << "[", "B", "l", "o", "c", "k", "]" >>,
    << "n", "a", "m", "e", ":", " ", "N" >>,
    << "[", "/", "B", "l", "o", "c", "k", "]" >>,
    << "[", "/", "P", "u", "z", "z", "l", "e", "]" >>,
    << "[", "P", "u", "z", "z", "l", "e", "]" >>,
    << "t", "i", "t", "l", "e", ":", " ", "u" >>,
    << "f", "a", "c", "t", ":", " ", "g" >>,
    << "w", "o", "r", "d", "s", ":" >>,
    << "z" >>,
    << "[", "/", "P", "u", "z", "z", "l", "e", "]" >> >> }

PuzzleFiles == {FileText[its] : its \in WellFormedFiles} \cup OtherFiles

\* Lines 94-105.
ParserInit ==
  /\ EngineInit
  /\ MainOff
  /\ ReplayOff
  /\ ValidateOff
  /\ SetupOff
  /\ ThematicOff
  /\ p_pc = "loop"
  /\ lines \in PuzzleFiles
  /\ specs = << >>
  /\ current_block_name = None
  /\ current_block_background = None
  /\ puzzle_index = 0
  /\ block_index = 0
  /\ p_i = 0

\* Lines 113-127: a [Block] section.
ParseBlock ==
  /\ p_pc = "loop"
  /\ p_i < Len(lines)
  /\ Strip(lines[p_i + 1]) = BlockOpen
  /\ LET j == ScanTo(lines, p_i + 1, BlockClose)
         r == parse_block_block(SubSeq(lines, p_i + 2, j), block_index)
     IN IF j >= Len(lines)
          THEN /\ p_pc' = "error"
               /\ UNCHANGED << current_block_name, current_block_background,
                               block_index, p_i >>
          ELSE /\ current_block_name' = r.name
               /\ current_block_background' = r.background
               /\ block_index' = block_index + 1
               /\ p_i' = j + 1
               /\ UNCHANGED p_pc
  /\ UNCHANGED << lines, specs, puzzle_index >>
  /\ UNCHANGED << engineVars, replayVars, validateVars, setupVars >>
  /\ UNCHANGED << mainVars, thematicVars >>

\* Lines 132-150: a [Puzzle] section.
ParsePuzzle ==
  /\ p_pc = "loop"
  /\ p_i < Len(lines)
  /\ Strip(lines[p_i + 1]) # BlockOpen
  /\ Strip(lines[p_i + 1]) = PuzzleOpen
  /\ LET j == ScanTo(lines, p_i + 1, PuzzleClose)
         r == parse_single_block(SubSeq(lines, p_i + 2, j), puzzle_index)
     IN IF j >= Len(lines) \/ r.raised
          THEN /\ p_pc' = "error"
               /\ UNCHANGED << specs, puzzle_index, p_i >>
          ELSE /\ specs' = Append(specs,
                             [r.spec EXCEPT
                                !.block_name = current_block_name,
                                !.block_background = current_block_background])
               /\ puzzle_index' = puzzle_index + 1
               /\ p_i' = j + 1
               /\ UNCHANGED p_pc
  /\ UNCHANGED << lines, current_block_name, current_block_background, block_index >>
  /\ UNCHANGED << engineVars, replayVars, validateVars, setupVars >>
  /\ UNCHANGED << mainVars, thematicVars >>

\* Lines 152-153: a line of no section is passed over.
SkipLine ==
  /\ p_pc = "loop"
  /\ p_i < Len(lines)
  /\ Strip(lines[p_i + 1]) # BlockOpen
  /\ Strip(lines[p_i + 1]) # PuzzleOpen
  /\ p_i' = p_i + 1
  /\ UNCHANGED << p_pc, lines, specs, current_block_name,
                  current_block_background, puzzle_index, block_index >>
  /\ UNCHANGED << engineVars, replayVars, validateVars, setupVars >>
  /\ UNCHANGED << mainVars, thematicVars >>

\* Lines 107 and 155: the loop ends, specs is returned.
ParseReturn ==
  /\ p_pc = "loop"
  /\ p_i >= Len(lines)
  /\ p_pc' = "returned"
  /\ UNCHANGED << lines, specs, current_block_name, current_block_background,
                  puzzle_index, block_index, p_i >>
  /\ UNCHANGED << engineVars, replayVars, validateVars, setupVars >>
  /\ UNCHANGED << mainVars, thematicVars >>

ParserNext == ParseBlock \/ ParsePuzzle \/ SkipLine \/ ParseReturn

SpecParser == ParserInit /\ [][ParserNext]_vars

(***************************************************************************)
(* main_thematic.py: main() from line 61 on.  m_pc is "t_parse" while      *)
(* parse_puzzle_file runs (line 62), "t_stopped" after one of the returns  *)
(* of lines 63-73, "t_settings" at line 78, "t_pages" at line 91,          *)
(* "t_puzzle" at the head of the for loop of line 168, "t_in_call" inside  *)
(* the call of line 176, "t_no_pdf" after the return of line 242 and       *)
(* "t_done" after generate_pdf.  p_pc is "missing" where open() raises     *)
(* FileNotFoundError.  An image is a record: the grid drawn on it is not   *)
(* kept, the numbers printed on it are.                                    *)
(***************************************************************************)
\* str.isalpha() on one character.
IsAlpha(ch) ==
  \/ ch \in Letters
  \/ \E n \in 1..26 : LowerAlphabet[n] = ch
  \/ ch = "ß"

\* clean_for_grid, lines 171-172.
clean_for_grid(word) == SelectSeq(Upper(word), IsAlpha)

\* Line 174.
words_for_grid(spec) == [n \in 1..Len(spec.words) |-> clean_for_grid(spec.words[n])]

\* getattr(spec, "block_name", "") or "", lines 103, 126 and 184.
BlockNameOr(spec) == IF spec.block_name = None THEN << >> ELSE spec.block_name

\* d[key] = val on a dict.
DictSet(d, key, val) ==
  [x \in (DOMAIN d) \cup {key} |-> IF x = key THEN val ELSE d[x]]

\* The for loop of lines 102-114 from specs[k] on: st holds current_page,
\* current_block_name, block_first_page and puzzle_page.
RECURSIVE PagePlan(_, _, _)
PagePlan(sp, k, st) ==
  IF k > Len(sp) THEN st
  ELSE LET block_name == BlockNameOr(sp[k])
           changes == block_name # << >> /\ block_name # st.current_block_name
           fresh == changes /\ block_name \notin DOMAIN st.block_first_page
           page == IF fresh THEN st.current_page + 1 ELSE st.current_page
       IN PagePlan(sp, k + 1,
            [current_page |-> page + 1,
             current_block_name |->
               IF changes THEN block_name ELSE st.current_block_name,
             block_first_page |->
               IF fresh THEN DictSet(st.block_first_page, block_name, st.current_page)
               ELSE st.block_first_page,
             puzzle_page |-> DictSet(st.puzzle_page, sp[k].index, page)])

\* Lines 91-114: the plan of the pages, current_page starting at 3.
PagePlanOf(sp) ==
  PagePlan(sp, 1, [current_page |-> 3, current_block_name |-> << >>,
                   block_first_page |-> << >>, puzzle_page |-> << >>])

\* d.get(key, 1), lines 129 and 134.
DictGet(d, key) == IF key \in DOMAIN d THEN d[key] ELSE 1

\* Lines 123-135 from specs[k] on: the entries (text, page, is_block).
RECURSIVE TocEntries(_, _, _, _)
TocEntries(sp, k, name, plan) ==
  IF k > Len(sp) THEN << >>
  ELSE LET block_name == BlockNameOr(sp[k])
           changes == block_name # << >> /\ block_name # name
       IN (IF changes
             THEN << [text |-> block_name,
                      page |-> DictGet(plan.block_first_page, block_name),
                      is_block |-> TRUE] >>
             ELSE << >>)
          \o << [text |-> sp[k].title,
                 page |-> DictGet(plan.puzzle_page, sp[k].index),
                 is_block |-> FALSE] >>
          \o TocEntries(sp, k + 1, IF changes THEN block_name ELSE name, plan)

\* An image of a page: what it is, the puzzle or block it is of, and the
\* "Solution on page N" number printed on a puzzle page.
Image(kind, index, n) ==
  [kind |-> kind, index |-> index, solution_page_number |-> n]

\* render_table_of_contents, image_rendering.py:976-1073: the images of the
\* table of contents.  The entries of the books below fit on one page.
render_table_of_contents(entries) == << Image("toc", 0, 0) >>

\* generate_pdf, pdf_book_generation.py:12-96: one page for each puzzle
\* image, the cover of the solutions, one page for each solution image.
\* The page number of a page is its position.
generate_pdf(p_imgs, s_imgs) ==
  p_imgs \o << Image("solutions_cover", 0, 0) >> \o s_imgs

\* The sections of the files main_thematic.py is run on.
abcdefgh == << "a", "b", "c", "d", "e", "f", "g", "h" >>

Abcdefgh == << "A", "b", "c", "d", "e", "f", "g", "h" >>

abcdefghi == << "a", "b", "c", "d", "e", "f", "g", "h", "i" >>

PuzzleText(title, ws) ==
  << PuzzleOpen, TitlePrefix \o title, FactPrefix \o << "f" >>, WordsPrefix >>
    \o ws \o << PuzzleClose >>

BlockText(name) == << BlockOpen, NamePrefix \o name, BlockClose >>

\* A puzzle that fits the grid, one whose word is longer than the grid,
\* and one with a word written twice, once with a capital.
Fitting == PuzzleText(<< "a" >>, << abcdefgh >>)

Long == PuzzleText(<< "b" >>, << abcdefghi >>)

Twice == PuzzleText(<< "c" >>, << abcdefgh, Abcdefgh >>)

BlockN == BlockText(<< "N" >>)

BlockM == BlockText(<< "M" >>)

\* Files parse_puzzle_file returns a list for.
ReturnedFiles ==
  { << >>,
    BlockN,
    Fitting,
    Long,
    Twice,
    Long \o << << >> >> \o Fitting,
    Fitting \o Long,
    BlockN \o Fitting \o BlockM \o Fitting,
    BlockN \o Long \o Fitting,
    BlockN \o Fitting \o BlockM \o Fitting \o BlockN \o Fitting }

\* Files it raises PuzzleParseError for: a block and a puzzle that are not
\* closed, after a puzzle and alone; puzzles without a title, with an
\* empty title, without a fact, with an empty fact, without words after
\* "words:", and without "words:".
RaisingFiles ==
  { << BlockOpen, NamePrefix \o << "N" >> >>,
    Fitting \o << BlockOpen >>,
    << PuzzleOpen, TitlePrefix \o << "a" >>, FactPrefix \o << "f" >>,
       WordsPrefix, abcdefgh >>,
    Fitting \o << PuzzleOpen, BlockClose >>,
    << PuzzleOpen, FactPrefix \o << "f" >>, WordsPrefix, abcdefgh, PuzzleClose >>,
    << PuzzleOpen, TitlePrefix \o << " " >>, FactPrefix \o << "f" >>,
       WordsPrefix, abcdefgh, PuzzleClose >>,
    << PuzzleOpen, TitlePrefix \o << "a" >>, WordsPrefix, abcdefgh, PuzzleClose >>,
    Fitting \o << PuzzleOpen, TitlePrefix \o << "a" >>, FactPrefix,
                  WordsPrefix, abcdefgh, PuzzleClose >>,
    << PuzzleOpen, TitlePrefix \o << "a" >>, FactPrefix \o << "f" >>,
       WordsPrefix, << " " >>, PuzzleClose >>,
    << PuzzleOpen, TitlePrefix \o << "a" >>, FactPrefix \o << "f" >>,
       abcdefgh, PuzzleClose >> }

ThematicFiles == ReturnedFiles \cup RaisingFiles

\* The lines typed at the questions of lines 78 and 80: EASY on 8 x 8.
BookDifficultyLines == { << "1" >> }

BookSizeLines == { << "8" >> }

\* Line 62: parse_puzzle_file is entered, or open() finds no file.
ThematicInit ==
  /\ EngineInit
  /\ m_pc = "t_parse"
  /\ diff = "easy"
  /\ grid_size = 0
  /\ wordlists = << >>
  /\ total = 0
  /\ m_i = 0
  /\ wl = << >>
  /\ attempt = 0
  /\ placed_result = NoResult
  /\ puzzles = << >>
  /\ solutions = << >>
  /\ ReplayOff
  /\ ValidateOff
  /\ SetupOff
  /\ ThematicOff
  /\ \/ p_pc = "loop" /\ lines \in ThematicFiles
     \/ p_pc = "missing" /\ lines = << >>
  /\ specs = << >>
  /\ current_block_name = None
  /\ current_block_background = None
  /\ puzzle_index = 0
  /\ block_index = 0
  /\ p_i = 0

\* Lines 61-73: the exceptions of parse_puzzle_file and an empty list end
\* main().
ThematicParsed ==
  /\ m_pc = "t_parse"
  /\ p_pc \in {"returned", "error", "missing"}
  /\ IF p_pc = "returned" /\ Len(specs) # 0
       THEN m_pc' = "t_settings" /\ total' = Len(specs)
       ELSE m_pc' = "t_stopped" /\ UNCHANGED total
  /\ UNCHANGED << diff, grid_size, wordlists, m_i, wl, attempt,
                  placed_result, puzzles, solutions >>
  /\ UNCHANGED << engineVars, replayVars, inputVars >>

\* Lines 78-80: _ask_difficulty and ask_grid_size, up to the lines they
\* return for.
ThematicSettings ==
  /\ m_pc = "t_settings"
  /\ \E d_raw \in BookDifficultyLines, s_raw \in BookSizeLines :
       /\ ThematicDifficultyOf(d_raw) # "again"
       /\ ask_grid_size(difficulty_settings(ThematicDifficultyOf(d_raw)), s_raw).returned
       /\ diff' = ThematicDifficultyOf(d_raw)
       /\ grid_size' =
            ask_grid_size(difficulty_settings(ThematicDifficultyOf(d_raw)), s_raw).val
  /\ m_pc' = "t_pages"
  /\ UNCHANGED << wordlists, total, m_i, wl, attempt,
                  placed_result, puzzles, solutions >>
  /\ UNCHANGED << engineVars, replayVars, inputVars >>

\* Lines 91-166: the plan of the pages, the entries of the table of
\* contents, its images and the image of the instructions.
ThematicPages ==
  /\ m_pc = "t_pages"
  /\ puzzle_page' = PagePlanOf(specs).puzzle_page
  /\ pages_before_first_solution' = (PagePlanOf(specs).current_page - 1) + 2
  /\ toc_entries' = TocEntries(specs, 1, << >>, PagePlanOf(specs))
  /\ puzzle_imgs' =
       Append(render_table_of_contents(TocEntries(specs, 1, << >>, PagePlanOf(specs))),
              Image("instructions", 0, 0))
  /\ solution_imgs' = << >>
  /\ main_block_name' = << >>
  /\ spec_i' = 1
  /\ m_pc' = "t_puzzle"
  /\ UNCHANGED pdf
  /\ UNCHANGED << diff, grid_size, wordlists, total, m_i, wl, attempt,
                  placed_result, puzzles, solutions >>
  /\ UNCHANGED << engineVars, replayVars, validateVars, parserVars, setupVars >>

\* Lines 168-176: place_words_on_grid is called for the next puzzle.
ThematicCall ==
  /\ m_pc = "t_puzzle"
  /\ spec_i <= Len(specs)
  /\ pc = "idle"
  /\ Enter(words_for_grid(specs[spec_i]), diff, grid_size)
  /\ m_pc' = "t_in_call"
  /\ UNCHANGED << diff, grid_size, wordlists, total, m_i, wl, attempt,
                  placed_result, puzzles, solutions >>
  /\ UNCHANGED << replayVars, inputVars >>

\* Lines 176-238: the call has returned; a puzzle with no grid is passed
\* over, the pages of the others are rendered, after the cover of their
\* block when the block changes.
ThematicReturned ==
  /\ m_pc = "t_in_call"
  /\ Returned
  /\ placed_result' = result
  /\ LET spec == specs[spec_i]
         block_name == BlockNameOr(spec)
         changes == block_name # << >> /\ block_name # main_block_name
         covers == Len(SelectSeq(puzzle_imgs, LAMBDA im : im.kind = "cover"))
     IN IF result.kind = "None"
          THEN UNCHANGED << main_block_name, puzzle_imgs, solution_imgs >>
          ELSE /\ main_block_name' = (IF changes THEN block_name ELSE main_block_name)
               /\ puzzle_imgs' =
                    (IF changes THEN Append(puzzle_imgs, Image("cover", covers + 1, 0))
                     ELSE puzzle_imgs)
                    \o << Image("puzzle", spec.index,
                                pages_before_first_solution + spec.index) >>
               /\ solution_imgs' = Append(solution_imgs, Image("solution", spec.index, 0))
  /\ spec_i' = spec_i + 1
  /\ m_pc' = "t_puzzle"
  /\ UNCHANGED << puzzle_page, pages_before_first_solution, toc_entries, pdf >>
  /\ UNCHANGED << diff, grid_size, wordlists, total, m_i, wl, attempt,
                  puzzles, solutions >>
  /\ UNCHANGED << engineVars, replayVars, validateVars, parserVars, setupVars >>

\* Lines 240-248: no PDF without images, generate_pdf otherwise.
ThematicPdf ==
  /\ m_pc = "t_puzzle"
  /\ spec_i > Len(specs)
  /\ IF puzzle_imgs = << >> \/ solution_imgs = << >>
       THEN m_pc' = "t_no_pdf" /\ UNCHANGED pdf
       ELSE m_pc' = "t_done" /\ pdf' = generate_pdf(puzzle_imgs, solution_imgs)
  /\ UNCHANGED << spec_i, main_block_name, puzzle_page,
                  pages_before_first_solution, toc_entries, puzzle_imgs,
                  solution_imgs >>
  /\ UNCHANGED << diff, grid_size, wordlists, total, m_i, wl, attempt,
                  placed_result, puzzles, solutions >>
  /\ UNCHANGED << engineVars, replayVars, validateVars, parserVars, setupVars >>

ThematicNext ==
  \/ ParseBlock \/ ParsePuzzle \/ SkipLine \/ ParseReturn
  \/ ThematicParsed \/ ThematicSettings \/ ThematicPages
  \/ ThematicCall \/ PlaceWord \/ FailWord \/ Fill
  \/ ThematicReturned \/ ThematicPdf

SpecThematic == ThematicInit /\ [][ThematicNext]_vars

(***************************************************************************)
(* wordsearch_batch.py: its own copy of place_words_on_grid (lines 60-115) *)
(* and the generation loop of its __main__ block (lines 489-533).  The     *)
(* script's variables wordlists, total, i, wl, placed_result, puzzles and  *)
(* solutions are the variables of the same names above; m_pc is "b_puzzle" *)
(* (501), "b_try" (505), "b_in_call" (506), "b_render" (511), "b_pdf"      *)
(* (532) or "b_done".                                                      *)
(***************************************************************************)
\* wordsearch_batch.py:50.
GRID_SIZE == 12

\* wordsearch_batch.py:51-54.
DIRECTIONS ==
  << <<0, 1>>, <<1, 0>>, <<0, -1>>, <<-1, 0>>,
     <<1, 1>>, <<1, -1>>, <<-1, 1>>, <<-1, -1>> >>

\* wordsearch_batch.py:60-64, called as place_words_on_grid(wl).
BatchEnter(ws) ==
  /\ words' = ws
  /\ size' = GRID_SIZE
  /\ grid' = EmptyGrid(GRID_SIZE)
  /\ placed' = << >>
  /\ words_sorted' = SortedWords(ws)
  /\ attempts' = 0
  /\ wi' = 1
  /\ pc' = IF SortedWords(ws) = << >> THEN "fill" ELSE "words"
  /\ result' = NoResult
  /\ UNCHANGED difficulty

\* wordsearch_batch.py:66-102, one word of the loop.  random.shuffle can
\* leave any candidate first and the loop commits the first candidate that
\* fits: the candidate committed, number i of the list of lines 68-72, is any
\* candidate that fits.
BatchPlaceStep(i) ==
  LET w    == Upper(words_sorted[wi])
      cand == CandidateAt(size, DIRECTIONS, i)
  IN /\ Fits(grid, w, cand, size)
     /\ IF WriteRaises(w, cand, size)
          THEN /\ pc' = "raised"
               /\ UNCHANGED << grid, placed, wi >>
          ELSE /\ grid' = WriteWord(grid, w, cand, size)
               /\ placed' = Append(placed, Placement(w, cand))
               /\ wi' = wi + 1
               /\ pc' = IF wi = Len(words_sorted) THEN "fill" ELSE "words"
     /\ UNCHANGED << words, difficulty, size, words_sorted, attempts, result >>

\* wordsearch_batch.py:77-104: no candidate of the list fits the word of
\* this round of the loop, in whatever order the shuffle left the list:
\* placed_flag stays False.
BatchNoFit ==
  ~ \E i \in 1..NumCandidates(size, DIRECTIONS) :
      Fits(grid, Upper(words_sorted[wi]), CandidateAt(size, DIRECTIONS, i), size)

\* wordsearch_batch.py:104-108: the call returns None.
BatchFailStep ==
  /\ BatchNoFit
  /\ attempts' = attempts + 1
  /\ result' = NoneResult
  /\ pc' = "idle"
  /\ UNCHANGED << words, difficulty, size, grid, placed, words_sorted, wi >>

BatchPlaceWord ==
  /\ pc = "words"
  /\ \E i \in 1..NumCandidates(size, DIRECTIONS) : BatchPlaceStep(i)
  /\ UNCHANGED << mainVars, replayVars, inputVars >>

BatchFailWord ==
  /\ pc = "words"
  /\ BatchFailStep
  /\ UNCHANGED << mainVars, replayVars, inputVars >>



\* The word lists and the number of puzzles written in the script (lines
\* 492-497, "modifica aquí tus palabras").
BatchInputs ==
  { [wordlists |-> << << rompecabezas >> >>, total |-> 1],
    [wordlists |-> << << rompecabezas >>, << independencia >> >>, total |-> 1] }

\* wordsearch_batch.py:492-499.
BatchInit ==
  /\ EngineInit
  /\ ReplayOff
  /\ InputOff
  /\ \E inp \in BatchInputs : wordlists = inp.wordlists /\ total = inp.total
  /\ m_pc = "b_puzzle"
  /\ diff = "hard"
  /\ grid_size = GRID_SIZE
  /\ m_i = 1
  /\ wl = << >>
  /\ attempt = 0
  /\ placed_result = NoResult
  /\ puzzles = << >>
  /\ solutions = << >>

\* wordsearch_batch.py:501-503: the next puzzle takes one of the lists,
\* shuffled, or the loop is over.
BatchNextPuzzle ==
  /\ m_pc = "b_puzzle"
  /\ IF m_i <= total
       THEN /\ \E n \in 1..Len(wordlists) : wl' \in ShuffledLists(wordlists[n])
            /\ m_pc' = "b_try"
       ELSE /\ m_pc' = "b_pdf"
            /\ UNCHANGED wl
  /\ UNCHANGED << diff, grid_size, wordlists, total, m_i, attempt,
                  placed_result, puzzles, solutions >>
  /\ UNCHANGED << engineVars, replayVars, inputVars >>

\* wordsearch_batch.py:505-506: while True, one more call.
BatchTry ==
  /\ m_pc = "b_try"
  /\ pc = "idle"
  /\ BatchEnter(wl)
  /\ m_pc' = "b_in_call"
  /\ UNCHANGED << diff, grid_size, wordlists, total, m_i, wl, attempt,
                  placed_result, puzzles, solutions >>
  /\ UNCHANGED << replayVars, inputVars >>

\* wordsearch_batch.py:506-509: a true result is unpacked and leaves the
\* loop, anything else goes round again.
BatchReturned ==
  /\ m_pc = "b_in_call"
  /\ Returned
  /\ placed_result' = result
  /\ m_pc' = IF Truthy(result) THEN "b_render" ELSE "b_try"
  /\ UNCHANGED << diff, grid_size, wordlists, total, m_i, wl, attempt,
                  puzzles, solutions >>
  /\ UNCHANGED << engineVars, replayVars, inputVars >>

\* wordsearch_batch.py:511-530.
BatchRender ==
  /\ m_pc = "b_render"
  /\ puzzles' = Append(puzzles, m_i)
  /\ solutions' = Append(solutions, m_i)
  /\ m_i' = m_i + 1
  /\ m_pc' = "b_puzzle"
  /\ UNCHANGED << diff, grid_size, wordlists, total, wl, attempt, placed_result >>
  /\ UNCHANGED << engineVars, replayVars, inputVars >>

\* wordsearch_batch.py:532-533.
BatchPdf ==
  /\ m_pc = "b_pdf"
  /\ m_pc' = "b_done"
  /\ UNCHANGED << diff, grid_size, wordlists, total, m_i, wl, attempt,
                  placed_result, puzzles, solutions >>
  /\ UNCHANGED << engineVars, replayVars, inputVars >>

BatchNext ==
  \/ BatchNextPuzzle \/ BatchTry \/ BatchReturned \/ BatchRender \/ BatchPdf
  \/ BatchPlaceWord \/ BatchFailWord \/ Fill

\* The script is one thread that keeps running until it ends: whenever a
\* step is possible, a step is taken.
SpecBatch == BatchInit /\ [][BatchNext]_vars /\ WF_vars(BatchNext)

(***************************************************************************)
(* Properties of place_words_on_grid.                                      *)
(***************************************************************************)
Range(s) == {s[i] : i \in 1..Len(s)}

\* How many placements of pl record the word w.
Occurrences(pl, w) == Cardinality({j \in 1..Len(pl) : pl[j].word = w})

\* How many words of ws have the uppercase form w.
InputOccurrences(ws, w) == Cardinality({i \in 1..Len(ws) : Upper(ws[i]) = w})

\* The cells of a placement, as raw index pairs.
CellsOf(p) == {Target(p.pos, i) : i \in 1..Len(p.word)}

\* The content of grid g at the raw index pair q, "outside" off the grid.
Content(g, q) == IF q \in DOMAIN g THEN g[q] ELSE "outside"

\* C1 as stated: on success every input word, uppercased, appears exactly
\* once among the placements, there are as many placements as input words,
\* and every placement of a word is as long as the input word.
C1_CoverageExactlyOnce ==
  Succeeded =>
    /\ Len(result.placed) = Len(words)
    /\ \A i \in 1..Len(words) :
         /\ Occurrences(result.placed, Upper(words[i])) = 1
         /\ \A j \in 1..Len(result.placed) :
              result.placed[j].word = Upper(words[i])
                => Len(result.placed[j].word) = Len(words[i])

\* C1 amended: on success there are as many placements as input words, every
\* word appears among the placements as often as the input holds a word
\* with that uppercase form (once when the uppercase forms are distinct),
\* no other word is recorded, and a placement is as long as its input word
\* unless upper() lengthens the word.
C1_Coverage ==
  Succeeded =>
    /\ Len(result.placed) = Len(words)
    /\ \A i \in 1..Len(words) :
         /\ Occurrences(result.placed, Upper(words[i]))
              = InputOccurrences(words, Upper(words[i]))
         /\ Len(Upper(words[i])) = Len(words[i])
              => \E j \in 1..Len(result.placed) :
                   /\ result.placed[j].word = Upper(words[i])
                   /\ Len(result.placed[j].word) = Len(words[i])
    /\ \A j \in 1..Len(result.placed) :
         \E i \in 1..Len(words) : result.placed[j].word = Upper(words[i])

\* A successful call whose two input words have the same uppercase form.
C1_Witness ==
  /\ Succeeded
  /\ words = << cat, CAT >>
  /\ Occurrences(result.placed, CAT) = 2

\* C2: on success every placement can be read back from the returned grid:
\* the cell of its i-th step holds its i-th letter; the same holds of the
\* grid under construction after every commit.
C2_Reconstructible ==
  /\ pc \in {"words", "fill"} =>
       \A j \in 1..Len(placed) : \A i \in 1..Len(placed[j].word) :
         Content(grid, Target(placed[j].pos, i)) = placed[j].word[i]
  /\ Succeeded =>
       \A j \in 1..Len(result.placed) : \A i \in 1..Len(result.placed[j].word) :
         Content(result.grid, Target(result.placed[j].pos, i))
           = result.placed[j].word[i]

\* A returned grid with two placements and at least one filler cell.
C2_Witness ==
  /\ Succeeded
  /\ Len(result.placed) = 2
  /\ \E q \in DOMAIN result.grid :
       \A j \in 1..Len(result.placed) : q \notin CellsOf(result.placed[j])

\* C3: every cell of every recorded placement lies on the grid, and no write
\* raises IndexError.
C3_InBounds ==
  /\ pc # "raised"
  /\ \A j \in 1..Len(placed) : CellsOf(placed[j]) \subseteq Cells(size)
  /\ \A j \in 1..Len(result.placed) :
       CellsOf(result.placed[j]) \subseteq Cells(size)

\* A word laid upwards or leftwards that ends on the first row or column.
C3_Witness ==
  /\ Succeeded
  /\ \E j \in 1..Len(result.placed) :
       LET p == result.placed[j]
       IN /\ Len(p.word) = size
          /\ (p.pos[3] = -1 \/ p.pos[4] = -1)
          /\ \E q \in CellsOf(p) : q[1] = 0 \/ q[2] = 0

\* The letter placement p needs at cell q.
LettersAt(p, q) == {p.word[i] : i \in {k \in 1..Len(p.word) : Target(p.pos, k) = q}}

\* C4: two recorded placements need the same letter at every cell they
\* share.
C4_NonConflict ==
  \A j1, j2 \in 1..Len(placed) :
    \A q \in CellsOf(placed[j1]) \cap CellsOf(placed[j2]) :
      LettersAt(placed[j1], q) = LettersAt(placed[j2], q)

\* Two words crossing on one shared cell.
C4_Witness ==
  /\ Succeeded
  /\ Len(placed) = 2
  /\ Cardinality(CellsOf(placed[1]) \cap CellsOf(placed[2])) = 1
  /\ placed[1].word # placed[2].word

\* Every character of the uppercase form of every word of ws is in A-Z.
AllLetters(ws) ==
  \A i \in 1..Len(ws) : \A ch \in Range(Upper(ws[i])) : ch \in Letters

\* C5 as stated: on success the grid is size x size and every cell holds an
\* uppercase letter A-Z.
C5_EveryCellALetter ==
  Succeeded =>
    /\ DOMAIN result.grid = Cells(size)
    /\ \A q \in DOMAIN result.grid : result.grid[q] \in Letters

\* C5 amended: on success the grid is size x size, no cell is empty, and
\* every cell holds the character a placement needs there or a filler letter
\* A-Z; every cell holds a letter A-Z when the uppercase forms of the input
\* words consist of letters A-Z.
C5_FullPopulation ==
  Succeeded =>
    /\ DOMAIN result.grid = Cells(size)
    /\ \A q \in DOMAIN result.grid :
         /\ result.grid[q] # ""
         /\ \/ result.grid[q] \in Letters
            \/ \E j \in 1..Len(result.placed) :
                 result.grid[q] \in LettersAt(result.placed[j], q)
    /\ AllLetters(words) =>
         \A q \in DOMAIN result.grid : result.grid[q] \in Letters

\* A returned grid of letters with a word cell and a filler cell in it.
C5_Witness ==
  /\ Succeeded
  /\ AllLetters(words)
  /\ size = MaxSize
  /\ Len(result.placed) = 1
  /\ \E q \in DOMAIN result.grid : q \notin CellsOf(result.placed[1])

\* C6: the direction of every recorded placement is one of the directions
\* of the difficulty passed in.
C6_DirectionLegality ==
  /\ \A j \in 1..Len(placed) :
       << placed[j].pos[3], placed[j].pos[4] >>
         \in Range(difficulty_settings(difficulty).directions)
  /\ \A j \in 1..Len(result.placed) :
       << result.placed[j].pos[3], result.placed[j].pos[4] >>
         \in Range(difficulty_settings(difficulty).directions)

\* A word laid along a diagonal under the medium difficulty.
C6_Witness ==
  /\ Succeeded
  /\ difficulty = "medium"
  /\ \E j \in 1..Len(result.placed) :
       << result.placed[j].pos[3], result.placed[j].pos[4] >> = << 1, -1 >>

\* C7: a call whose list holds a word longer than the grid size returns
\* None, whatever the directions and the shuffles, and does not raise.
C7_TooLongFails ==
  (\E i \in 1..Len(words) : Len(words[i]) > size) =>
    /\ pc # "raised"
    /\ Returned => result = NoneResult

\* A call under the hard difficulty has returned whose list holds a word
\* that fits and, after it, a word longer than the grid.
C7_Witness ==
  /\ Returned
  /\ difficulty = "hard"
  /\ Len(words) = 2
  /\ Len(words[1]) <= size
  /\ Len(words[2]) > size

\* C8: a call does not raise, and it returns None or a pair whose grid has a
\* character in every cell and whose placements are one per input word.
C8_NoPartialResult ==
  /\ pc # "raised"
  /\ Returned =>
       \/ result = NoneResult
       \/ /\ result.kind = "tuple"
          /\ DOMAIN result.grid = Cells(size)
          /\ \A q \in DOMAIN result.grid : result.grid[q] # ""
          /\ Len(result.placed) = Len(words)

\* A call that returned None after it had committed a word.
C8_Witness ==
  /\ Returned
  /\ result = NoneResult
  /\ Len(placed) >= 1
  /\ \A i \in 1..Len(words) : Len(Upper(words[i])) <= size

\* C9: a call repeated with the same words, difficulty and grid size, and
\* given the same random outcomes (every shuffle and every filler choice),
\* returns what the first call returned: None both times, or the same grid
\* and the same placements.
C9_SameSeedSameResult ==
  (run = 2 /\ Returned) => result = first

\* A repeated call that returned a grid with two placements.
C9_Witness ==
  /\ run = 2
  /\ Returned
  /\ result.kind = "tuple"
  /\ Len(result.placed) = 2
  /\ size = MaxSize

\* The state of a call in progress is the call's own: the grid has the size
\* asked for, the placements are those of the words of this call handled so
\* far, in order, and a cell that is not empty belongs to one of them.
C14_FreshState ==
  pc \in {"words", "fill"} =>
    /\ DOMAIN grid = Cells(size)
    /\ Len(placed) = (IF pc = "words" THEN wi - 1 ELSE Len(words_sorted))
    /\ \A j \in 1..Len(placed) : placed[j].word = Upper(words_sorted[j])
    /\ \A q \in DOMAIN grid :
         grid[q] # "" => \E j \in 1..Len(placed) : q \in CellsOf(placed[j])

\* C14: every call is isolated: it starts from an empty grid and an empty
\* placement list, whatever the call before it left behind (a full grid
\* after a success, some words after a failure), and it leaves the caller's
\* word list as it was, in content and order.
C14_Isolated ==
  /\ []C14_FreshState
  /\ [][run # 0 => words' = words]_vars

\* A second call at its start, grid and placement list empty, when the
\* call before it had committed a word and then failed.
C14_Witness ==
  /\ run = 2
  /\ pc = "words"
  /\ wi = 1
  /\ grid = EmptyGrid(size)
  /\ placed = << >>
  /\ first = NoneResult
  /\ Len(tape) = 2

\* C15: CAT and DOG on the 5 x 5 grid with the directions (0,1) and (1,0):
\* the call succeeds whatever the shuffles; each word has one placement,
\* rightwards or downwards, that reads back from the grid; the two
\* placements cover 6 distinct cells and the other 19 cells hold letters
\* A-Z.
C15_CatDog ==
  /\ pc # "raised"
  /\ (Returned /\ size = 5) =>
       /\ result.kind = "tuple"
       /\ DOMAIN result.grid = Cells(5)
       /\ Len(result.placed) = 2
       /\ Occurrences(result.placed, CAT) = 1
       /\ Occurrences(result.placed, DOG) = 1
       /\ \A j \in 1..2 :
            /\ << result.placed[j].pos[3], result.placed[j].pos[4] >>
                 \in { << 0, 1 >>, << 1, 0 >> }
            /\ \A i \in 1..3 :
                 Content(result.grid, Target(result.placed[j].pos, i))
                   = result.placed[j].word[i]
       /\ LET used == CellsOf(result.placed[1]) \cup CellsOf(result.placed[2])
          IN /\ Cardinality(used) = 6
             /\ used \subseteq Cells(5)
             /\ Cardinality(DOMAIN result.grid \ used) = 19
             /\ \A q \in DOMAIN result.grid \ used : result.grid[q] \in Letters

\* The 5 x 5 grid returned with one word across and the other down.
C15_Witness ==
  /\ Succeeded
  /\ size = 5
  /\ words = << CAT, DOG >>
  /\ result.placed[1].pos[3] # result.placed[2].pos[3]

\* The letters of w that candidate c, lying on the grid, lays on cells of g
\* that are not empty.
Crossed(g, w, c) == {n \in 1..Len(w) : g[Target(c, n)] # ""}

\* Every candidate on the grid is accepted, when the shuffle brings it
\* first, exactly when every occupied cell it crosses holds the letter the
\* word needs there.
C16_AcceptRule ==
  pc = "words" =>
    LET w    == Upper(words_sorted[wi])
        dirs == DirectionsOf(difficulty)
    IN \A i \in 1..NumCandidates(size, dirs) :
         LET c == CandidateAt(size, dirs, i)
         IN (\A n \in 1..Len(w) : Target(c, n) \in Cells(size)) =>
              ((FirstFit(grid, w, size, dirs, i - 1) = 1)
                 <=> \A n \in Crossed(grid, w, c) : grid[Target(c, n)] = w[n])

\* Every commit lays each letter on a cell that was empty or held that
\* letter, and the cell holds the letter afterwards.
C16_CommitRule ==
  (pc = "words" /\ Len(placed') = Len(placed) + 1) =>
    LET p == placed'[Len(placed')]
    IN \A n \in 1..Len(p.word) :
         /\ Content(grid, Target(p.pos, n)) \in {"", p.word[n]}
         /\ Content(grid', Target(p.pos, n)) = p.word[n]

\* C16: words that share a letter can cross on it: a candidate that crosses
\* occupied cells is accepted exactly when each of them already holds the
\* letter needed, and the commit keeps both words readable.
C16_Crossing ==
  /\ []C16_AcceptRule
  /\ [][C16_CommitRule]_vars

\* CAT and CAR returned starting on the same cell, which holds their C,
\* each word reading back along its own line.
C16_Witness ==
  /\ Succeeded
  /\ words = << CAT, CAR >>
  /\ << result.placed[1].pos[1], result.placed[1].pos[2] >>
       = << result.placed[2].pos[1], result.placed[2].pos[2] >>
  /\ result.grid[<< result.placed[1].pos[1], result.placed[1].pos[2] >>] = "C"
  /\ \A j \in 1..2 : \A n \in 1..3 :
       Content(result.grid, Target(result.placed[j].pos, n))
         = result.placed[j].word[n]

\* The directions of the placements recorded so far and of those returned.
PlacedDirections ==
  {<< placed[j].pos[3], placed[j].pos[4] >> : j \in 1..Len(placed)}
    \cup {<< result.placed[j].pos[3], result.placed[j].pos[4] >> :
             j \in 1..Len(result.placed)}

\* C18 as stated: under a difficulty whose allow_reversed is False every
\* placement has dr >= 0 and dc >= 0.
C18_NoReversed ==
  ~difficulty_settings(difficulty).allow_reversed =>
    \A d \in PlacedDirections : d[1] >= 0 /\ d[2] >= 0

\* C18 amended: under a difficulty whose allow_reversed is False no
\* placement reads bottom-to-top (dr >= 0) or right-to-left along a row,
\* and no two legal directions are opposite; under EASY every placement has
\* dr >= 0 and dc >= 0; MEDIUM allows the diagonal (1,-1) as well, which runs
\* down and to the left; HARD allows the 8 directions.
C18_ReversedOnlyWhenAllowed ==
  /\ ~difficulty_settings(difficulty).allow_reversed =>
       /\ \A d \in PlacedDirections : d[1] >= 0 /\ d # << 0, -1 >>
       /\ \A d, e \in PlacedDirections : d # << 0 - e[1], 0 - e[2] >>
  /\ difficulty = "easy" =>
       \A d \in PlacedDirections : d[1] >= 0 /\ d[2] >= 0
  /\ difficulty = "medium" =>
       PlacedDirections \subseteq
         { << 0, 1 >>, << 1, 0 >>, << 1, 1 >>, << 1, -1 >> }
  /\ Range(difficulty_settings("hard").directions)
       = ({-1, 0, 1} \X {-1, 0, 1}) \ { << 0, 0 >> }
  /\ difficulty_settings("hard").allow_reversed

\* A word returned under MEDIUM along the diagonal that runs down and to
\* the left, corner to corner.
C18_Witness ==
  /\ Succeeded
  /\ difficulty = "medium"
  /\ ~difficulty_settings(difficulty).allow_reversed
  /\ \E j \in 1..Len(result.placed) :
       /\ result.placed[j].pos = << 0, size - 1, 1, -1 >>
       /\ Len(result.placed[j].word) = size
       /\ size = MaxSize

\* The word the loop of line 20 is at, and its candidates that fit the grid
\* as it stands.
CurrentWord == Upper(words_sorted[wi])

ValidNow ==
  {i \in 1..NumCandidates(size, DirectionsOf(difficulty)) :
     Fits(grid, CurrentWord, CandidateAt(size, DirectionsOf(difficulty), i), size)}

\* C22: a word without a valid candidate makes the call return None at
\* once, the grid and the placements left as they are and no later word
\* looked at.
C22_FailsAtOnce ==
  (pc = "words" /\ ValidNow = {}) =>
    /\ pc' = "idle"
    /\ result' = NoneResult
    /\ grid' = grid
    /\ placed' = placed
    /\ wi' = wi
    /\ words_sorted' = words_sorted
    /\ attempts' = attempts + 1

\* C22: the loop only moves forward, one word at a time, and keeps every
\* earlier placement.
C22_NoSecondPass ==
  (pc = "words" /\ pc' # "idle") =>
    /\ wi' = wi + 1
    /\ attempts' = attempts
    /\ words_sorted' = words_sorted
    /\ Len(placed') = Len(placed) + 1
    /\ SubSeq(placed', 1, Len(placed)) = placed

\* C22: at most one word fails in a call, and the call is over once it has.
C22_OneFailure ==
  /\ attempts <= 1
  /\ attempts = 1 => (pc = "idle" /\ result = NoneResult)

\* C22: place_words_on_grid is a single-pass attempt.
C22_SinglePass ==
  /\ []C22_OneFailure
  /\ [][C22_FailsAtOnce /\ C22_NoSecondPass]_vars

\* A call that returned None at a word that was not the last of the pass.
C22_Witness ==
  /\ Returned
  /\ result = NoneResult
  /\ attempts = 1
  /\ wi < Len(words_sorted)

\* The positions, in the list shuffled with outcome k, of the candidates
\* that are valid for the current word on the grid as it stands.
ValidInOrder(k) ==
  {i \in 1..NumCandidates(size, DirectionsOf(difficulty)) :
     Fits(grid, CurrentWord, ShuffledAt(size, DirectionsOf(difficulty), k, i), size)}

\* C23: at every word of the first call, with the shuffle outcome the random
\* source gave: when no candidate is valid the call returns None, and
\* otherwise the valid candidate that comes first in the shuffled list is
\* the one recorded and the loop goes on.
C23_Step ==
  (run = 1 /\ pc = "words" /\ Len(draws') = Len(draws) + 1) =>
    LET k == draws'[Len(draws')]
    IN IF ValidInOrder(k) = {}
         THEN pc' = "idle" /\ result' = NoneResult
         ELSE LET h == CHOOSE i \in ValidInOrder(k) :
                         \A j \in ValidInOrder(k) : i <= j
              IN /\ pc' \in {"words", "fill"}
                 /\ placed' = Append(placed,
                       [word |-> CurrentWord,
                        pos  |-> ShuffledAt(size, DirectionsOf(difficulty), k, h)])

C23_FirstValidCommitted == [][C23_Step]_vars

\* The grid of the call in progress as it was after its first placement.
AfterFirst == WriteWord(EmptyGrid(size), placed[1].word, placed[1].pos, size)

\* The second word of a call committed after the candidate that came first
\* in its shuffled list had been rejected.
C23_Witness ==
  /\ run = 1
  /\ Len(placed) = 2
  /\ Len(draws) >= 2
  /\ ~Fits(AfterFirst, placed[2].word,
           ShuffledAt(size, DirectionsOf(difficulty), draws[2], 1), size)

\* The words the loop of line 20 has still to go through.
WordsLeft == IF pc = "words" THEN Len(words_sorted) - wi + 1 ELSE 0

\* C25: while the call is in its loop the loop is at a word of the list,
\* which has finitely many candidates of finitely many cells.
C25_InsideList ==
  pc = "words" =>
    /\ wi \in 1..Len(words_sorted)
    /\ NumCandidates(size, DirectionsOf(difficulty)) = size * size * Len(DirectionsOf(difficulty))
    /\ Len(CurrentWord) <= 2 * Len(words_sorted[wi])

\* C25: every step of a call leaves fewer words to go through.
C25_Decreases == pc = "words" => WordsLeft' < WordsLeft

\* C25: every call of place_words_on_grid comes to its end.
C25_Terminates ==
  /\ (pc # "idle") ~> (pc = "idle" /\ result.kind \in {"None", "tuple"})
  /\ []C25_InsideList
  /\ [][C25_Decreases]_vars

\* A call on the 3 x 3 grid, with the two directions of EASY, that went
\* through two words and the filler and returned.
C25_Witness ==
  /\ Succeeded
  /\ difficulty = "easy"
  /\ size = 3
  /\ Len(words) = 2
  /\ Len(result.placed) = 2

\* The cells whose value a step changes.
Changed == {q \in DOMAIN grid : q \in DOMAIN grid' /\ grid'[q] # grid[q]}

\* C27: within a call a cell that holds a letter keeps it.
C27_WriteOnce ==
  pc \in {"words", "fill"} =>
    /\ DOMAIN grid' = DOMAIN grid
    /\ \A q \in DOMAIN grid : grid[q] # "" => grid'[q] = grid[q]

\* C27: a commit changes only empty cells on the line of the word, to the
\* letter of the word there; a word that is not committed changes no cell.
C27_Commit ==
  pc = "words" =>
    IF Len(placed') = Len(placed) + 1
      THEN LET p == placed'[Len(placed')]
           IN \A q \in Changed :
                /\ grid[q] = ""
                /\ \E n \in 1..Len(p.word) :
                     Target(p.pos, n) = q /\ grid'[q] = p.word[n]
      ELSE Changed = {} /\ placed' = placed

\* C27: the filler writes a letter on the empty cells only, and the
\* placements returned are the ones recorded.
C27_Filler ==
  pc = "fill" =>
    /\ \A q \in Changed : grid[q] = "" /\ grid'[q] \in Letters
    /\ placed' = placed
    /\ result'.placed = placed

\* C27: grid cells are write-once within a call.
C27_Frame == [][C27_WriteOnce /\ C27_Commit /\ C27_Filler]_vars

\* A returned grid of two words that cross on a cell, with a filler letter on
\* a cell neither word lies on.
C27_Witness ==
  /\ Succeeded
  /\ Len(result.placed) = 2
  /\ \E n, m \in 1..3 :
       /\ n <= Len(result.placed[1].word)
       /\ m <= Len(result.placed[2].word)
       /\ Target(result.placed[1].pos, n) = Target(result.placed[2].pos, m)
  /\ \E q \in Cells(size) :
       \A j \in 1..2 : \A n \in 1..Len(result.placed[j].word) :
         Target(result.placed[j].pos, n) # q

\* Whether the words of the call from the i-th on can be laid on grid g
\* one after the other, each on a candidate valid on the grid so far: a
\* conflict-free arrangement.
RECURSIVE CanArrange(_, _)
CanArrange(g, i) ==
  IF i > Len(words_sorted) THEN TRUE
  ELSE \E n \in 1..NumCandidates(size, DirectionsOf(difficulty)) :
         LET c == CandidateAt(size, DirectionsOf(difficulty), n)
         IN /\ Fits(g, Upper(words_sorted[i]), c, size)
            /\ CanArrange(WriteWord(g, Upper(words_sorted[i]), c, size), i + 1)

\* Whether some shuffle outcomes carry the loop from the i-th word on grid g
\* through every word.
RECURSIVE CanSucceed(_, _)
CanSucceed(g, i) ==
  IF i > Len(words_sorted) THEN TRUE
  ELSE \E k \in ShuffleOutcomes :
         LET w   == Upper(words_sorted[i])
             hit == FirstFit(g, w, size, DirectionsOf(difficulty), k)
         IN /\ hit # 0
            /\ CanSucceed(WriteWord(g, w,
                             ShuffledAt(size, DirectionsOf(difficulty), k, hit),
                             size), i + 1)

\* C26: a call whose words have a conflict-free arrangement returns None
\* only at a word that is valid on the empty grid and that the words
\* committed before it block; and at the entry of such a call some shuffle
\* outcomes lead through every word.
C26_BlockedByEarlier ==
  /\ (Returned /\ result = NoneResult /\ CanArrange(EmptyGrid(size), 1)) =>
       /\ placed # << >>
       /\ ValidNow = {}
       /\ \E n \in 1..NumCandidates(size, DirectionsOf(difficulty)) :
            Fits(EmptyGrid(size), CurrentWord,
                 CandidateAt(size, DirectionsOf(difficulty), n), size)
  /\ (pc = "words" /\ wi = 1 /\ CanArrange(EmptyGrid(size), 1)) =>
       CanSucceed(EmptyGrid(size), 1)

\* A call that returned None at its second word although its two words have
\* a conflict-free arrangement: the first word lies across the grid.
C26_Witness ==
  /\ Returned
  /\ result = NoneResult
  /\ Len(words) = 2
  /\ Len(placed) = 1
  /\ CanArrange(EmptyGrid(size), 1)
  /\ CanSucceed(EmptyGrid(size), 1)

\* The position in the input list of the word placement j was made for: the
\* j-th of the input positions taken in descending order of the length of
\* the input word, positions of equal length in ascending order.
Before(a, b) ==
  \/ Len(words[a]) > Len(words[b])
  \/ Len(words[a]) = Len(words[b]) /\ a < b

InputPosition(j) ==
  CHOOSE a \in 1..Len(words) :
    Cardinality({b \in 1..Len(words) : Before(b, a)}) = j - 1

\* C24 as stated: the lengths of the words along the returned placements
\* never increase, and of two placements of equal length the one whose word
\* came first in the input comes first.
C24_PlacementLengthsDescend ==
  Succeeded =>
    \A j, k \in 1..Len(result.placed) :
      j < k =>
        /\ Len(result.placed[j].word) >= Len(result.placed[k].word)
        /\ Len(result.placed[j].word) = Len(result.placed[k].word)
             => InputPosition(j) < InputPosition(k)

\* C24 amended: the words are processed, and their placements returned, in
\* descending order of the length of the words as given (before upper()),
\* words of equal given length in their input order; the lengths along the
\* placements never increase when upper() lengthens no word.
C24_InputLengthsDescend ==
  /\ pc \in {"words", "fill"} =>
       \A j \in 1..Len(placed) : placed[j].word = Upper(words[InputPosition(j)])
  /\ Succeeded =>
       /\ Len(result.placed) = Len(words)
       /\ \A j \in 1..Len(result.placed) :
            result.placed[j].word = Upper(words[InputPosition(j)])
       /\ (\A a \in 1..Len(words) : Len(Upper(words[a])) = Len(words[a])) =>
            \A j, k \in 1..Len(result.placed) :
              j < k => Len(result.placed[j].word) >= Len(result.placed[k].word)

\* A returned list of placements whose second word, four letters once
\* uppercased, is longer than its first.
C24_Witness ==
  /\ Succeeded
  /\ words = << CAT, SzSz >>
  /\ Len(result.placed[1].word) = 3
  /\ Len(result.placed[2].word) = 4

(***************************************************************************)
(* Properties of the questions asked before the generation loop.           *)
(***************************************************************************)
\* C17: the grid size main.py and main_thematic.py go on with, the one they
\* pass to place_words_on_grid, lies within the bounds of the difficulty
\* chosen, and the default of every difficulty lies within its bounds.
C17_GridSizeInBounds ==
  /\ m_pc \in {"prompt_wordlists", "validate", "rejected", "puzzle", "t_ready"} =>
       /\ difficulty_settings(diff).grid_min <= grid_size
       /\ grid_size <= difficulty_settings(diff).grid_max
  /\ \A d \in DifficultyLevel :
       /\ difficulty_settings(d).grid_min <= difficulty_settings(d).grid_default
       /\ difficulty_settings(d).grid_default <= difficulty_settings(d).grid_max

\* main.py at its generation loop with a grid size that was typed, the
\* largest of the difficulty.
C17_Witness ==
  /\ m_pc = "puzzle"
  /\ diff = "hard"
  /\ grid_size = difficulty_settings("hard").grid_max

\* The word occurrences (list, position) whose cleaned form is longer than
\* the grid size.
TooLong ==
  {b \in {c \in (1..Len(wordlists)) \X (1..3) : c[2] <= Len(wordlists[c[1]])} :
     Len(CleanWord(wordlists[b[1]][b[2]], remove_spaces)) > grid_size}

\* The position of occurrence b among the occurrences of TooLong, in list
\* order then word order.
TooLongRank(b) ==
  Cardinality({c \in TooLong : c[1] < b[1] \/ (c[1] = b[1] /\ c[2] < b[2])}) + 1

\* C19: validate_wordlists_for_grid returns one entry per word occurrence
\* whose cleaned form is longer than grid_size, in list order then word
\* order, with the 0-based list index, the word, its cleaned form and the
\* cleaned length; the result is empty exactly when every cleaned word has
\* length <= grid_size.
C19_ReportExact ==
  m_pc = "v_returned" =>
    /\ Len(problems) = Cardinality(TooLong)
    /\ \A b \in TooLong :
         problems[TooLongRank(b)] =
           [list_index |-> b[1] - 1,
            word       |-> wordlists[b[1]][b[2]],
            clean_word |-> CleanWord(wordlists[b[1]][b[2]], remove_spaces),
            length     |-> Len(CleanWord(wordlists[b[1]][b[2]], remove_spaces))]
    /\ (problems = << >>) <=>
         \A n \in 1..Len(wordlists) : \A k \in 1..Len(wordlists[n]) :
           Len(CleanWord(wordlists[n][k], remove_spaces)) <= grid_size

\* C19: and the call leaves the word lists as they were given.
C19_Validate ==
  /\ []C19_ReportExact
  /\ [][m_pc = "v_call" => wordlists' = wordlists]_vars

\* A call that reported two words, of the first and of the third list, and
\* let a word pass that fits once stripped.
C19_Witness ==
  /\ m_pc = "v_returned"
  /\ remove_spaces
  /\ Len(wordlists) = 3
  /\ Len(problems) = 2
  /\ problems[1].list_index = 0
  /\ problems[2].list_index = 2
  /\ problems[2].word = spaced
  /\ problems[2].length = 5

\* The name a puzzle takes from the block written as section q of its.
BlockNameOf(its, q) ==
  IF its[q].name = None
    THEN << "B", "l", "o", "c", "k", " " >>
           \o IntToStr(Cardinality({m \in 1..(q - 1) : its[m].kind = "block"}))
    ELSE its[q].name

\* What parse_puzzle_file is to return for the file written from the
\* sections its: the puzzles in the order written, numbered from 0, each
\* with the name and background of the last block written before it.
ReturnsFor(its) ==
  LET pz == {q \in 1..Len(its) : its[q].kind = "puzzle"}
  IN /\ Len(specs) = Cardinality(pz)
     /\ \A q \in pz :
          LET k  == Cardinality({m \in pz : m <= q})
              bs == {m \in 1..q : its[m].kind = "block"}
              b  == CHOOSE m \in bs : \A o \in bs : o <= m
          IN /\ specs[k].index = k - 1
             /\ specs[k].title = its[q].title
             /\ specs[k].fact = its[q].fact
             /\ IF bs = {}
                  THEN /\ specs[k].block_name = None
                       /\ specs[k].block_background = None
                  ELSE /\ specs[k].block_name = BlockNameOf(its, b)
                       /\ specs[k].block_background = its[b].background

\* C20: parse_puzzle_file returns the puzzles in file order with the
\* indices 0, 1, 2, ..., each with block_name and block_background of the
\* most recent [Block] before it, and with None for both before any block.
C20_FileOrderAndBlocks ==
  p_pc = "returned" =>
    \A its \in WellFormedFiles : FileText[its] = lines => ReturnsFor(its)

\* C20: while parsing, the puzzles read so far are numbered 0, 1, 2, ...
C20_Indices ==
  p_pc \in {"loop", "returned", "error"} =>
    /\ puzzle_index = Len(specs)
    /\ \A k \in 1..Len(specs) : specs[k].index = k - 1

C20_Parser == C20_FileOrderAndBlocks /\ C20_Indices

\* The file with a puzzle before every block, one after a first block and
\* one after a second block, parsed to its end.
C20_Witness ==
  /\ p_pc = "returned"
  /\ lines = FileText[<< P1, B1, P2, B3, P1 >>]
  /\ Len(specs) = 3
  /\ specs[1].block_name = None
  /\ specs[2].block_name = << "N" >>
  /\ specs[2].block_background = << "b", "g" >>
  /\ specs[3].block_name = << "M" >>
  /\ specs[3].block_background = None

\* C30: in main.py the lines 1, 2 and 3 (an empty line counts as 1) select
\* EASY, MEDIUM and HARD, and every other line, a number outside 1..3 or
\* not a number, selects EASY.
C30_DifficultyChoice ==
  m_pc \in {"ask_grid_size", "prompt_wordlists", "validate", "rejected", "puzzle"} =>
    diff = IF int(diff_choice).ok /\ int(diff_choice).val \in 1..3
             THEN DifficultyList[int(diff_choice).val]
             ELSE "easy"

(***************************************************************************)
(* Properties of the orchestrators.                                        *)
(***************************************************************************)
\* C10: when place_words_on_grid has failed on every attempt for a puzzle,
\* main() skips the puzzle and goes on: a None result is never unpacked as a
\* pair (grid, placements), so the process does not stop with TypeError.
C10_ExhaustionIsSkipped == m_pc # "TypeError"

\* C11: the retry loop of every orchestrator is bounded, so that the book
\* is finished even when a word list can never be placed; as stated of
\* wordsearch_batch.py: the script eventually gets to the end.
C11_BatchTerminates == <>(m_pc = "b_done")

\* C12: whenever main() has called place_words_on_grid, no word of the list
\* it passed is longer, as the engine places it (uppercased), than the grid
\* size.
C12_PassedWordsFit ==
  m_pc = "in_call" =>
    \A n \in 1..Len(words) : Len(Upper(words[n])) <= size

\* C13: every word main() passes to place_words_on_grid consists of
\* alphabetic characters only, and every cell of a grid that goes on to be
\* rendered holds a letter.
C13_PassedWordsAlphabetic ==
  /\ m_pc = "in_call" =>
       \A n \in 1..Len(words) : \A ch \in Range(words[n]) : IsAlpha(ch)
  /\ (m_pc = "unpack" /\ CanUnpack(placed_result)) =>
       \A q \in DOMAIN placed_result.grid : IsAlpha(placed_result.grid[q])

(***************************************************************************)
(* Properties of main_thematic.py.                                         *)
(***************************************************************************)
\* The line the parser is at is the tag.
AtTag(tag) == p_i < Len(lines) /\ Strip(lines[p_i + 1]) = tag

\* The lines after the line the parser is at that are the tag.
ClosingLines(tag) == {m \in (p_i + 2)..Len(lines) : Strip(lines[m]) = tag}

\* The section opened at the line the parser is at is never closed.
OpenedNeverClosed ==
  \/ AtTag(BlockOpen) /\ ClosingLines(BlockClose) = {}
  \/ AtTag(PuzzleOpen) /\ ClosingLines(PuzzleClose) = {}

\* The lines of the puzzle section opened at the line the parser is at.
SectionBody ==
  LET close == CHOOSE m \in ClosingLines(PuzzleClose) :
                 \A o \in ClosingLines(PuzzleClose) : m <= o
  IN SubSeq(lines, p_i + 2, close - 1)

\* The first "words:" line of a section, or one past its end.
HeaderEnd(body) ==
  LET at == {n \in 1..Len(body) : StartsWith(Lower(Strip(body[n])), WordsPrefix)}
  IN IF at = {} THEN Len(body) + 1
     ELSE CHOOSE n \in at : \A o \in at : n <= o

\* A header line of the section gives a non-empty value after the prefix.
HasField(body, prefix) ==
  \E n \in 1..(HeaderEnd(body) - 1) :
     /\ StartsWith(Lower(Strip(body[n])), prefix)
     /\ Strip(AfterColon(Strip(body[n]))) # << >>

\* A line after "words:" holds a word.
HasWord(body) ==
  \E n \in (HeaderEnd(body) + 1)..Len(body) : Strip(body[n]) # << >>

\* The closed puzzle section at the line the parser is at lacks a non-empty
\* title, a non-empty fact, or a word after "words:".
PuzzleLacks ==
  /\ AtTag(PuzzleOpen)
  /\ ClosingLines(PuzzleClose) # {}
  /\ \/ ~HasField(SectionBody, TitlePrefix)
     \/ ~HasField(SectionBody, FactPrefix)
     \/ ~HasWord(SectionBody)

\* C21, the parser: at a [Block] or [Puzzle] that is never closed, and at a
\* puzzle section that lacks a non-empty title, a non-empty fact or a word
\* after "words:", the next step of parse_puzzle_file raises
\* PuzzleParseError.
C21_Raises ==
  [][(p_pc = "loop" /\ (OpenedNeverClosed \/ PuzzleLacks)) => p_pc' = "error"]_<< p_pc, p_i >>

\* C21, no list: once PuzzleParseError is raised nothing is returned.
C21_NoList == [][p_pc = "error" => p_pc' = "error"]_vars

\* C21, main(): after PuzzleParseError main() stops; no page has been
\* rendered and no PDF is written, then or later.
C21_Stops ==
  /\ [](p_pc = "error" =>
         /\ m_pc \in {"t_parse", "t_stopped"}
         /\ pc = "idle" /\ result = NoResult
         /\ puzzle_imgs = << >> /\ solution_imgs = << >> /\ pdf = << >>)
  /\ [][m_pc = "t_stopped" => m_pc' = "t_stopped"]_vars

C28_GridWordsDistinct ==
  /\ m_pc = "t_in_call" =>
       \A a, b \in 1..Len(words) : a # b => words[a] # words[b]
  /\ (m_pc = "t_in_call" /\ Succeeded) =>
       \A a, b \in 1..Len(result.placed) :
          a # b => result.placed[a].word # result.placed[b].word

\* The page generate_pdf gives to the image of this kind of the puzzle.
PageOf(kind, index) ==
  CHOOSE n \in 1..Len(pdf) : pdf[n].kind = kind /\ pdf[n].index = index

\* The page the table of contents lists for the puzzle: the entries that
\* are not blocks are those of specs, in order.
TocPage(index) ==
  LET k == CHOOSE j \in 1..Len(specs) : specs[j].index = index
  IN SelectSeq(toc_entries, LAMBDA e : ~e.is_block)[k].page

\* C29: in the PDF main_thematic.py assembles, the "Solution on page N"
\* number printed on the page of every generated puzzle is the page of that
\* puzzle's solution, and the page the table of contents lists for the
\* puzzle is the page of its puzzle image, whichever puzzles were skipped.
C29_PagesMatch ==
  m_pc = "t_done" =>
    \A n \in 1..Len(pdf) :
       pdf[n].kind = "puzzle" =>
         /\ pdf[n].solution_page_number = PageOf("solution", pdf[n].index)
         /\ TocPage(pdf[n].index) = n

====
